---- MODULE Spec2Model ----
(***************************************************************************)
(* Model of src/Streamlit/TextDocumentAnalyzer.py: the OOXML package       *)
(* pipeline (DocxValidator, XMLDocumentCorrector) and the correction call  *)
(* (GrammarCorrectorForm.CorrectGrammar).                                  *)
(*                                                                         *)
(* A text is a sequence of one-character strings.  The text of a w:t       *)
(* element that lxml reports as None is modelled as the empty text: the    *)
(* code reads it through `text or ""` / `text if text else ''` everywhere. *)
(* A paragraph owns its runs: the w:t elements of one w:p belong to no     *)
(* other w:p (no text boxes nested inside a paragraph).                    *)
(***************************************************************************)
EXTENDS Integers, Sequences, FiniteSets, TLC

(***************************************************************************)
(* Bounds of the model.                                                    *)
(***************************************************************************)
MaxRuns == 3
MaxRunLen == 3
MaxCorrLen == 4
MaxLongLen == 22

(***************************************************************************)
(* Texts.                                                                  *)
(***************************************************************************)
Chars == {"a", "b"}

Min(x, y) == IF x <= y THEN x ELSE y

\* All sequences over S of length at most n.
SeqsUpTo(S, n) == UNION {[1..k -> S] : k \in 0..n}

\* All sequences over S of length 1..n.
NonEmptySeqsUpTo(S, n) == UNION {[1..k -> S] : k \in 1..n}

\* ''.join(texts): the concatenation of a sequence of texts.
RECURSIVE Join(_)
Join(texts) ==
    IF texts = <<>> THEN <<>> ELSE Head(texts) \o Join(Tail(texts))

\* Python slice s[a:b] for 0 <= a, 0 <= b (offsets clamp to len(s)).
Slice(s, a, b) ==
    LET hi == Min(b, Len(s))
    IN IF a >= hi THEN <<>> ELSE SubSeq(s, a + 1, hi)

(***************************************************************************)
(* int(pos / Lo * Lc) (lines 272-275) and int(i / (Lc / Lo)) (lines 377,   *)
(* 380) are computed in IEEE doubles.  The double result is the exact      *)
(* quotient floor(pos * Lc / Lo), resp. floor(i * Lo / Lc), except where   *)
(* the exact value is an integer and the rounded intermediate falls just   *)
(* below it; then int() gives one less.  The two sets below list every     *)
(* such case for lengths up to 30 (<<pos, Lo, Lc>> and <<i, Lo, Lc>>);     *)
(* every length of this model stays below 30.                              *)
(***************************************************************************)
ScaledPosRoundsBelow == {<<15, 22, 22>>, <<13, 23, 23>>, <<15, 26, 26>>}

OrigPosRoundsBelow ==
    {<<9, 14, 18>>, <<9, 21, 27>>, <<18, 21, 27>>, <<9, 28, 18>>}

\* int((pos / len(original)) * len(corrected))
ScaledPos(pos, isoOriginalLen, isoCorrectedLen) ==
    ((pos * isoCorrectedLen) \div isoOriginalLen)
    - (IF <<pos, isoOriginalLen, isoCorrectedLen>> \in ScaledPosRoundsBelow
       THEN 1 ELSE 0)

\* int(i / (len(corrected) / len(original)))
OrigPosOf(i, isoOriginalLen, isoCorrectedLen) ==
    ((i * isoOriginalLen) \div isoCorrectedLen)
    - (IF <<i, isoOriginalLen, isoCorrectedLen>> \in OrigPosRoundsBelow
       THEN 1 ELSE 0)

(***************************************************************************)
(* XMLDocumentCorrector._DistributeTextToParagraph                         *)
(***************************************************************************)
\* A degenerate branch that would merge the elements into one.
AllInFirstMerged(isoTextElements, isoCorrectedText) == <<isoCorrectedText>>

\* The degenerate branch shared by both routines: the whole corrected text
\* goes to the first element, every other element is cleared.
AllInFirst(isoTextElements, isoCorrectedText) ==
    [k \in 1..Len(isoTextElements) |->
        IF k = 1 THEN isoCorrectedText ELSE <<>>]

\* isoElementMap: one entry per element with non-empty text, in element
\* order, with its start and end offset among the non-empty elements.
RECURSIVE ElementMapFrom(_, _, _)
ElementMapFrom(isoTextElements, k, isoPosition) ==
    IF k > Len(isoTextElements) THEN <<>>
    ELSE LET isoElemLength == Len(isoTextElements[k])
         IN IF isoElemLength > 0
            THEN <<[element |-> k,
                    start_pos |-> isoPosition,
                    end_pos |-> isoPosition + isoElemLength]>>
                 \o ElementMapFrom(isoTextElements, k + 1,
                                   isoPosition + isoElemLength)
            ELSE ElementMapFrom(isoTextElements, k + 1, isoPosition)

ElementMap(isoTextElements) == ElementMapFrom(isoTextElements, 1, 0)

\* A mapped element that would keep its original length instead of its
\* proportional share.
NewTextOfUnscaled(isoElemInfo, isoOriginalText, isoCorrectedText) ==
    Slice(isoCorrectedText,
          Min(isoElemInfo.start_pos, Len(isoCorrectedText)),
          Min(isoElemInfo.end_pos, Len(isoCorrectedText)))

\* The text one mapped element receives (lines 272-276).
NewTextOf(isoElemInfo, isoOriginalText, isoCorrectedText) ==
    LET isoNewStart == Min(ScaledPos(isoElemInfo.start_pos,
                                     Len(isoOriginalText),
                                     Len(isoCorrectedText)),
                           Len(isoCorrectedText))
        isoNewEnd == Min(ScaledPos(isoElemInfo.end_pos,
                                   Len(isoOriginalText),
                                   Len(isoCorrectedText)),
                         Len(isoCorrectedText))
    IN Slice(isoCorrectedText, isoNewStart, isoNewEnd)

DistributeTextToParagraph(isoTextElements, isoOriginalText, isoCorrectedText) ==
    IF Len(isoOriginalText) = 0 \/ Len(isoCorrectedText) = 0
    THEN AllInFirst(isoTextElements, isoCorrectedText)
    ELSE LET isoElementMap == ElementMap(isoTextElements)
         IN [k \in 1..Len(isoTextElements) |->
                IF \E m \in 1..Len(isoElementMap) : isoElementMap[m].element = k
                THEN LET m == CHOOSE m \in 1..Len(isoElementMap) :
                                  isoElementMap[m].element = k
                     IN NewTextOf(isoElementMap[m], isoOriginalText,
                                  isoCorrectedText)
                ELSE isoTextElements[k]]

(***************************************************************************)
(* XMLDocumentCorrector._DistributeCorrectedTextImproved                   *)
(***************************************************************************)
\* isoCharPositions: for every character of the element texts, in order,
\* the (1-based) index of the element that owns it.
RECURSIVE CharPositionsFrom(_, _)
CharPositionsFrom(isoTextElements, k) ==
    IF k > Len(isoTextElements) THEN <<>>
    ELSE [n \in 1..Len(isoTextElements[k]) |-> k]
         \o CharPositionsFrom(isoTextElements, k + 1)

CharPositions(isoTextElements) == CharPositionsFrom(isoTextElements, 1)

\* The loop of lines 379-382: character i (0-based) of the corrected text is
\* appended to the element that owns original offset min(int(i/ratio), n-1).
RECURSIVE AccumulateFrom(_, _, _, _, _)
AccumulateFrom(isoElementTexts, isoCharPositions, isoOriginalLen, isoCorrectedText, i) ==
    IF i >= Len(isoCorrectedText) THEN isoElementTexts
    ELSE LET isoOrigPos == Min(OrigPosOf(i, isoOriginalLen,
                                         Len(isoCorrectedText)),
                               Len(isoCharPositions) - 1)
             isoElementIndex == isoCharPositions[isoOrigPos + 1]
         IN AccumulateFrom(
                [isoElementTexts EXCEPT ![isoElementIndex] =
                     @ \o <<isoCorrectedText[i + 1]>>],
                isoCharPositions, isoOriginalLen, isoCorrectedText, i + 1)

DistributeCorrectedTextImproved(isoTextElements, isoOriginalText, isoCorrectedText) ==
    IF Len(isoOriginalText) = 0 \/ Len(isoCorrectedText) = 0
    THEN AllInFirst(isoTextElements, isoCorrectedText)
    ELSE IF Len(Join(isoTextElements)) = 0
    THEN [k \in 1..Len(isoTextElements) |->
             IF k = 1 THEN isoCorrectedText ELSE isoTextElements[k]]
    ELSE AccumulateFrom([k \in 1..Len(isoTextElements) |-> <<>>],
                        CharPositions(isoTextElements),
                        Len(isoOriginalText), isoCorrectedText, 0)

(***************************************************************************)
(* The redistribution routines on their own: a paragraph (its run texts)   *)
(* and a corrected text are drawn, then one of the two routines is applied *)
(* as its callers apply it, with isoOriginalText the join of the run texts *)
(* (lines 224, 294, 345).                                                  *)
(*                                                                         *)
(* Both routines read only the lengths of the original run texts, so the   *)
(* run texts are drawn as consecutive slices of one fixed pattern text.    *)
(***************************************************************************)
VARIABLES distElements, distOriginal, distCorrected, distRoutine, distResult,
          distFailure

distVars == <<distElements, distOriginal, distCorrected, distRoutine,
              distResult, distFailure>>

PatternText(n) == [i \in 1..n |-> IF i % 2 = 1 THEN "a" ELSE "b"]

CorrectedPattern(n) == [i \in 1..n |-> IF i % 3 = 0 THEN "a" ELSE "b"]

\* The run texts with the given lengths: slices of PatternText.
RECURSIVE RunsFrom(_, _)
RunsFrom(lens, pos) ==
    IF lens = <<>> THEN <<>>
    ELSE <<[i \in 1..Head(lens) |-> IF (pos + i) % 2 = 1 THEN "a" ELSE "b"]>>
         \o RunsFrom(Tail(lens), pos + Head(lens))

RunsOfLengths(lens) == RunsFrom(lens, 0)

\* Paragraphs of up to MaxRuns runs of up to MaxRunLen characters each.
SmallParagraphs ==
    {RunsOfLengths(lens) : lens \in NonEmptySeqsUpTo(0..MaxRunLen, MaxRuns)}

\* Two-run paragraphs of 13..MaxLongLen characters, every split point.
LongLengthPairs ==
    {lens \in (1..MaxLongLen) \X (1..MaxLongLen) :
        lens[1] + lens[2] \in 13..MaxLongLen}

\* Three-run paragraphs of 13..MaxLongLen characters whose middle run is a
\* single character, at every position.
LongLengthTriples ==
    {<<first, 1, last>> : first \in 1..MaxLongLen, last \in 1..MaxLongLen}
    \cap {lens \in Seq(1..MaxLongLen) :
              Len(lens) = 3 /\ lens[1] + lens[3] + 1 \in 13..MaxLongLen}

\* A paragraph of two runs, "Hello " and "wrld", with the corrected text
\* "Hello world".
HelloParagraph ==
    [runs |-> << <<"H", "e", "l", "l", "o", " ">>, <<"w", "r", "l", "d">> >>,
     corrected |-> <<"H", "e", "l", "l", "o", " ", "w", "o", "r", "l", "d">>]

DistInit ==
    /\ \/ /\ distElements \in SmallParagraphs
          /\ distCorrected \in SeqsUpTo(Chars, MaxCorrLen)
                              \cup {Join(distElements)}
       \/ /\ distElements \in {RunsOfLengths(lens) :
                                  lens \in LongLengthPairs \cup LongLengthTriples}
          /\ distCorrected \in {CorrectedPattern(n) : n \in 13..MaxLongLen}
                              \cup {Join(distElements)}
       \/ /\ distElements = HelloParagraph.runs
          /\ distCorrected = HelloParagraph.corrected
    /\ distOriginal = Join(distElements)
    /\ distRoutine = "none"
    /\ distResult = <<>>
    /\ distFailure = "none"

\* _DistributeTextToParagraph applied to the drawn paragraph.
ApplyDistributeTextToParagraph ==
    /\ distRoutine = "none"
    /\ distRoutine' = "body"
    /\ distResult' = DistributeTextToParagraph(distElements, distOriginal,
                                               distCorrected)
    /\ UNCHANGED <<distElements, distOriginal, distCorrected, distFailure>>

\* _DistributeCorrectedTextImproved applied to the drawn paragraph.
ApplyDistributeCorrectedTextImproved ==
    /\ distRoutine = "none"
    /\ distRoutine' = "improved"
    /\ distResult' = DistributeCorrectedTextImproved(distElements, distOriginal,
                                                     distCorrected)
    /\ UNCHANGED <<distElements, distOriginal, distCorrected, distFailure>>

(***************************************************************************)
(* The routines assignment by assignment.  Every `element.text = value` of *)
(* lines 253-255, 277, 360-362, 368, 384 and 388-390 goes through lxml's   *)
(* text setter, which raises ValueError for a value that is not XML        *)
(* compatible (a NULL byte or a control character); the service may answer *)
(* with such a character.  An assignment that raises leaves the element    *)
(* and every later element as they were.                                   *)
(*   distFailure  "none": no assignment raised; "caught": one raised and   *)
(*                the handler of lines 385-390 completed; "escaped": the   *)
(*                exception left the routine.                              *)
(***************************************************************************)
FormFeed == "\f"

XmlCompatible(text) == \A k \in 1..Len(text) : text[k] # FormFeed

\* The assignments of the degenerate branch and of the handler, in order:
\* the first element takes the corrected text, the others are cleared.
AllInFirstAssignments(isoTextElements, isoCorrectedText) ==
    [k \in 1..Len(isoTextElements) |->
        [element |-> k, text |-> IF k = 1 THEN isoCorrectedText ELSE <<>>]]

\* The assignments applied in order up to the first one that raises.
RECURSIVE SetTextsFrom(_, _, _)
SetTextsFrom(texts, isoAssignments, n) ==
    IF n > Len(isoAssignments) THEN [texts |-> texts, raised |-> FALSE]
    ELSE IF ~XmlCompatible(isoAssignments[n].text)
    THEN [texts |-> texts, raised |-> TRUE]
    ELSE SetTextsFrom([texts EXCEPT ![isoAssignments[n].element] =
                                        isoAssignments[n].text],
                      isoAssignments, n + 1)

\* _DistributeTextToParagraph: no handler, an exception leaves the routine.
DistributeTextToParagraphSetting(isoTextElements, isoOriginalText, isoCorrectedText) ==
    LET isoElementMap == ElementMap(isoTextElements)
        isoAssignments ==
            IF Len(isoOriginalText) = 0 \/ Len(isoCorrectedText) = 0
            THEN AllInFirstAssignments(isoTextElements, isoCorrectedText)
            ELSE [m \in 1..Len(isoElementMap) |->
                     [element |-> isoElementMap[m].element,
                      text |-> NewTextOf(isoElementMap[m], isoOriginalText,
                                         isoCorrectedText)]]
        done == SetTextsFrom(isoTextElements, isoAssignments, 1)
    IN [texts |-> done.texts,
        failure |-> IF done.raised THEN "escaped" ELSE "none"]

\* _DistributeCorrectedTextImproved: an exception of the try block runs the
\* handler, whose own assignments go through the same setter.
DistributeCorrectedTextImprovedSetting(isoTextElements, isoOriginalText, isoCorrectedText) ==
    LET isoElementTexts ==
            AccumulateFrom([k \in 1..Len(isoTextElements) |-> <<>>],
                           CharPositions(isoTextElements),
                           Len(isoOriginalText), isoCorrectedText, 0)
        isoAssignments ==
            IF Len(isoOriginalText) = 0 \/ Len(isoCorrectedText) = 0
            THEN AllInFirstAssignments(isoTextElements, isoCorrectedText)
            ELSE IF Len(Join(isoTextElements)) = 0
            THEN <<[element |-> 1, text |-> isoCorrectedText]>>
            ELSE [k \in 1..Len(isoTextElements) |->
                     [element |-> k, text |-> isoElementTexts[k]]]
        tried == SetTextsFrom(isoTextElements, isoAssignments, 1)
        handled == SetTextsFrom(tried.texts,
                                AllInFirstAssignments(isoTextElements,
                                                      isoCorrectedText), 1)
    IN IF ~tried.raised THEN [texts |-> tried.texts, failure |-> "none"]
       ELSE [texts |-> handled.texts,
             failure |-> IF handled.raised THEN "escaped" ELSE "caught"]

\* The corrected texts of the service, control character included.
ServiceTexts == SeqsUpTo(Chars \cup {FormFeed}, MaxCorrLen)

SetTextInit ==
    /\ distElements \in SmallParagraphs
    /\ distCorrected \in ServiceTexts
    /\ distOriginal = Join(distElements)
    /\ distRoutine = "none"
    /\ distResult = <<>>
    /\ distFailure = "none"

\* _DistributeTextToParagraph run on the drawn paragraph.
RunDistributeTextToParagraph ==
    /\ distRoutine = "none"
    /\ distRoutine' = "body"
    /\ LET out == DistributeTextToParagraphSetting(distElements, distOriginal,
                                                   distCorrected)
       IN /\ distResult' = out.texts
          /\ distFailure' = out.failure
    /\ UNCHANGED <<distElements, distOriginal, distCorrected>>

\* _DistributeCorrectedTextImproved run on the drawn paragraph.
RunDistributeCorrectedTextImproved ==
    /\ distRoutine = "none"
    /\ distRoutine' = "improved"
    /\ LET out == DistributeCorrectedTextImprovedSetting(distElements,
                                                         distOriginal,
                                                         distCorrected)
       IN /\ distResult' = out.texts
          /\ distFailure' = out.failure
    /\ UNCHANGED <<distElements, distOriginal, distCorrected>>

(***************************************************************************)
(* The section sentinel of the batching protocol (lines 235, 240).  The    *)
(* literal is one atomic token of a text: a text either holds the whole    *)
(* sentinel at a place or none of its characters.                          *)
(***************************************************************************)
SECTION_BREAK == "\n==SECTION_BREAK==\n"

Whitespace == {" "}

\* not text.strip(): the text is empty or holds whitespace only
\* (lines 225, 295, 346); also `not text or text.isspace()` (line 752).
IsBlank(text) == \A k \in 1..Len(text) : text[k] \in Whitespace

\* "\n==SECTION_BREAK==\n".join(isoSectionTexts)
RECURSIVE JoinSections(_)
JoinSections(isoSectionTexts) ==
    IF Len(isoSectionTexts) = 0 THEN <<>>
    ELSE IF Len(isoSectionTexts) = 1 THEN isoSectionTexts[1]
    ELSE isoSectionTexts[1] \o <<SECTION_BREAK>>
         \o JoinSections(Tail(isoSectionTexts))

\* isoCorrectedBatch.split("\n==SECTION_BREAK==\n"): always at least one
\* segment; n sentinels give n + 1 segments.
RECURSIVE SplitFrom(_, _, _)
SplitFrom(text, k, current) ==
    IF k > Len(text) THEN <<current>>
    ELSE IF text[k] = SECTION_BREAK
         THEN <<current>> \o SplitFrom(text, k + 1, <<>>)
         ELSE SplitFrom(text, k + 1, Append(current, text[k]))

SplitSections(text) == SplitFrom(text, 1, <<>>)

(***************************************************************************)
(* GrammarCorrectorForm.CorrectGrammar (lines 751-775): one correction     *)
(* call.  The service is an opaque collaborator: a request either fails    *)
(* with one of the errors line 769 catches (request/HTTP error, undecodable*)
(* JSON, missing key or index) or succeeds with some text.                 *)
(*   cgPc        "idle", "called", "attempt" or "returned"                 *)
(*   cgText      isoText                                                   *)
(*   isoAttempt  the loop variable of line 762                             *)
(*   cgOutcomes  the requests posted by this call so far, in order: each   *)
(*               [ok |-> FALSE, content |-> <<>>] or [ok |-> TRUE, content |-> text]         *)
(*   cgResult    the returned text, once cgPc = "returned"                 *)
(*   cgCaller    who called ("batch", "single", "lxml" or "direct")        *)
(*   cgChanged   some call so far was answered by the service with a text  *)
(*               other than the text of the request                        *)
(***************************************************************************)
VARIABLES cgPc, cgText, isoAttempt, cgOutcomes, cgResult, cgCaller, cgChanged

cgVars == <<cgPc, cgText, isoAttempt, cgOutcomes, cgResult, cgCaller,
            cgChanged>>

\* The default of the parameter isoRetryCount; no caller passes another.
isoRetryCount == 3

\* Texts a segment of a service answer is drawn from.
SegmentTexts == {<<>>, <<"b", "a", "b">>}

\* The content of an answer whose "content" is null: line 767 reads None
\* and line 768 returns it.
NoneContent == <<"None">>

\* The text a redistribution routine called with the returned content
\* ends up distributing: `isoCorrectedText or ""` at line 253; at line 358
\* len(None) raises, and the handler of lines 385-390 assigns None to the
\* first run and "" to the others.
TextOf(content) == IF content = NoneContent THEN <<>> ELSE content

\* The answers of the service to a request for isoText: the text itself,
\* any 1 .. n+1 segments joined by the sentinel, n the number of sections
\* of isoText, or no text at all.
ServiceResponses(isoText) ==
    {isoText, NoneContent} \cup
    {JoinSections(segs) :
        segs \in NonEmptySeqsUpTo(SegmentTexts,
                                  Len(SplitSections(isoText)) + 1)}

CGIdle ==
    /\ cgPc = "idle"
    /\ cgText = <<>>
    /\ isoAttempt = 0
    /\ cgOutcomes = <<>>
    /\ cgResult = <<>>
    /\ cgCaller = "none"
    /\ cgChanged = FALSE

\* The caller has taken the returned text.
CorrectGrammarTaken ==
    /\ cgPc' = "idle"
    /\ cgText' = <<>>
    /\ isoAttempt' = 0
    /\ cgOutcomes' = <<>>
    /\ cgResult' = <<>>
    /\ cgCaller' = "none"
    /\ UNCHANGED cgChanged

\* The call itself, as the callers make it.
CallCorrectGrammar(isoText, caller) ==
    /\ cgPc' = "called"
    /\ cgText' = isoText
    /\ isoAttempt' = 0
    /\ cgOutcomes' = <<>>
    /\ cgResult' = <<>>
    /\ cgCaller' = caller
    /\ UNCHANGED cgChanged

\* Lines 752-761: an empty or whitespace-only text is returned at once.
CorrectGrammarEnter ==
    /\ cgPc = "called"
    /\ IF Len(cgText) = 0 \/ IsBlank(cgText)
       THEN /\ cgPc' = "returned"
            /\ cgResult' = cgText
       ELSE /\ cgPc' = "attempt"
            /\ UNCHANGED cgResult
    /\ UNCHANGED <<cgText, isoAttempt, cgOutcomes, cgCaller, cgChanged>>

\* Lines 764-768: the request succeeds and its content is returned.
RequestSucceeds ==
    /\ cgPc = "attempt"
    /\ isoAttempt < isoRetryCount
    /\ \E content \in ServiceResponses(cgText) :
          /\ cgOutcomes' = Append(cgOutcomes, [ok |-> TRUE, content |-> content])
          /\ cgResult' = content
          /\ cgChanged' = (cgChanged \/ content # cgText)
    /\ cgPc' = "returned"
    /\ UNCHANGED <<cgText, isoAttempt, cgCaller>>

\* A failure handler that would never give up.
RequestFailsNoDegrade ==
    /\ cgPc = "attempt"
    /\ isoAttempt < isoRetryCount
    /\ cgOutcomes' = Append(cgOutcomes, [ok |-> FALSE, content |-> <<>>])
    /\ isoAttempt' = isoAttempt + 1
    /\ UNCHANGED <<cgPc, cgResult, cgText, cgCaller, cgChanged>>

\* A failure handler that would give up with an empty text.
RequestFailsReturnsEmpty ==
    /\ cgPc = "attempt"
    /\ isoAttempt < isoRetryCount
    /\ cgOutcomes' = Append(cgOutcomes, [ok |-> FALSE, content |-> <<>>])
    /\ IF isoAttempt < isoRetryCount - 1
       THEN /\ isoAttempt' = isoAttempt + 1
            /\ UNCHANGED <<cgPc, cgResult>>
       ELSE /\ cgPc' = "returned"
            /\ cgResult' = <<>>
            /\ UNCHANGED isoAttempt
    /\ UNCHANGED <<cgText, cgCaller, cgChanged>>

\* Lines 769-775: the request fails; sleep and try again, or, on the last
\* attempt, return the input text.
RequestFails ==
    /\ cgPc = "attempt"
    /\ isoAttempt < isoRetryCount
    /\ cgOutcomes' = Append(cgOutcomes, [ok |-> FALSE, content |-> <<>>])
    /\ IF isoAttempt < isoRetryCount - 1
       THEN /\ isoAttempt' = isoAttempt + 1
            /\ UNCHANGED <<cgPc, cgResult>>
       ELSE /\ cgPc' = "returned"
            /\ cgResult' = cgText
            /\ UNCHANGED isoAttempt
    /\ UNCHANGED <<cgText, cgCaller, cgChanged>>

(***************************************************************************)
(* The extracted part tree.  A file is its path below the extraction       *)
(* directory, a sequence of names; a directory exists when a file lies     *)
(* below it.  An archive is the sequence of the arcnames written to it.    *)
(***************************************************************************)
ContentTypesPath == <<"[Content_Types].xml">>
RelsPath == <<"_rels", ".rels">>
DocRelsPath == <<"word", "_rels", "document.xml.rels">>
DocXmlPath == <<"word", "document.xml">>

\* Every ordering of a finite set: the order in which glob and os.walk
\* yield directory entries is the file system's.
Orderings(S) ==
    {f \in [1..Cardinality(S) -> S] :
        \A x, y \in 1..Cardinality(S) : x # y => f[x] # f[y]}

\* The entry written for a fixed path when it exists (lines 125-130,
\* 399-410).
IfExists(files, path) == IF path \in files THEN <<path>> ELSE <<>>

\* DocxValidator._CreateDocx, lines 131-137: the files os.walk visits,
\* without the two written first.
WalkedFiles(files) == files \ {ContentTypesPath, RelsPath}

\* An assembler that would write the files in the order of the walk alone.
CreateDocxWalkOnly(files) == Orderings(files)

\* DocxValidator._CreateDocx: the archives it can write for a part tree.
CreateDocx(files) ==
    {IfExists(files, ContentTypesPath) \o IfExists(files, RelsPath) \o walked :
        walked \in Orderings(WalkedFiles(files))}

\* XMLDocumentCorrector._CreateDocxProperly, lines 411-414: the files
\* directly in _rels, except .rels.
RootRelsFiles(files) ==
    {f \in files : Len(f) = 2 /\ f[1] = "_rels" /\ f[2] # ".rels"}

\* Lines 415-420: the files directly in word/_rels, except
\* document.xml.rels.
WordRelsFiles(files) ==
    {f \in files : /\ Len(f) = 3
                   /\ f[1] = "word"
                   /\ f[2] = "_rels"
                   /\ f[3] # "document.xml.rels"}

\* Lines 421-424: the files directly in word, except document.xml.
WordFiles(files) ==
    {f \in files : Len(f) = 2 /\ f[1] = "word" /\ f[2] # "document.xml"}

\* Lines 425-430: every file below a sub-directory of word other than
\* _rels.
WordSubdirFiles(files) ==
    {f \in files : Len(f) >= 3 /\ f[1] = "word" /\ f[2] # "_rels"}

\* Lines 431-439: every other top-level file, and every file below every
\* other top-level directory.
OtherTopLevelFiles(files) ==
    {f \in files : f[1] \notin {"[Content_Types].xml", "_rels", "word"}}

\* XMLDocumentCorrector._CreateDocxProperly: the archives it can write.
CreateDocxProperly(files) ==
    {IfExists(files, ContentTypesPath) \o IfExists(files, RelsPath)
     \o IfExists(files, DocRelsPath) \o IfExists(files, DocXmlPath)
     \o g5 \o g6 \o g7 \o g8 \o g9 :
        g5 \in Orderings(RootRelsFiles(files)),
        g6 \in Orderings(WordRelsFiles(files)),
        g7 \in Orderings(WordFiles(files)),
        g8 \in Orderings(WordSubdirFiles(files)),
        g9 \in Orderings(OtherTopLevelFiles(files))}

\* The arcnames of an archive, and how often one occurs in it.
Entries(archive) == {archive[k] : k \in 1..Len(archive)}

Occurrences(archive, path) ==
    Cardinality({k \in 1..Len(archive) : archive[k] = path})

(***************************************************************************)
(* The assemblers on their own: a part tree is drawn, then one of the two  *)
(* assemblers writes it.                                                   *)
(***************************************************************************)
VARIABLES asmFiles, asmBy, asmArchive

asmVars == <<asmFiles, asmBy, asmArchive>>

MaxFiles == 4

CandidatePaths ==
    {ContentTypesPath, RelsPath, DocRelsPath, DocXmlPath,
     <<"_rels", "app.rels">>,
     <<"_rels", "sub", "x.rels">>,
     <<"word", "_rels", "header1.xml.rels">>,
     <<"word", "_rels", "sub", "y.rels">>,
     <<"word", "header1.xml">>,
     <<"word", "media", "image1.png">>,
     <<"docProps", "core.xml">>}

AsmInit ==
    /\ asmFiles \in {T \in SUBSET CandidatePaths : Cardinality(T) <= MaxFiles}
    /\ asmBy = "none"
    /\ asmArchive = <<>>

AsmIdle ==
    /\ asmFiles = {}
    /\ asmBy = "none"
    /\ asmArchive = <<>>

ApplyCreateDocx ==
    /\ asmBy = "none"
    /\ asmBy' = "_CreateDocx"
    /\ asmArchive' \in CreateDocx(asmFiles)
    /\ UNCHANGED asmFiles

ApplyCreateDocxProperly ==
    /\ asmBy = "none"
    /\ asmBy' = "_CreateDocxProperly"
    /\ asmArchive' \in CreateDocxProperly(asmFiles)
    /\ UNCHANGED asmFiles

(***************************************************************************)
(* DocxValidator._ValidateRelationships, lines 103-117, on the entries of  *)
(* one relationship part.  An identifier is <<prefix, number>>: "rId1" is  *)
(* <<"rId", 1>> and the synthetic f"R{n}" is <<"R", n>>.  A target is      *)
(* [external |-> TRUE] (it starts with "http" or "/") or                   *)
(* [external |-> FALSE, path |-> the path relative to the owning           *)
(* directory].                                                             *)
(***************************************************************************)
SyntheticId(n) == <<"R", n>>

\* The loop of lines 105-112 from entry k on; isoRelIds is the set of
\* identifiers seen so far.  Line 112 adds the identifier the entry was
\* read with (isoRelId), also when the entry was just renamed.
RECURSIVE AuditIdsFrom(_, _, _)
AuditIdsFrom(isoRelationships, k, isoRelIds) ==
    IF k > Len(isoRelationships) THEN <<>>
    ELSE LET isoRel == isoRelationships[k]
             isoRelId == isoRel.Id
             isoNewId == SyntheticId(Cardinality(isoRelIds) + 1)
         IN <<IF isoRelId \in isoRelIds
              THEN [isoRel EXCEPT !.Id = isoNewId]
              ELSE isoRel>>
            \o AuditIdsFrom(isoRelationships, k + 1,
                            isoRelIds \cup {isoRelId})

\* An audit that would drop the entries with an identifier already seen.
AuditRelationshipsDropping(isoRelationships) ==
    LET kept == {k \in 1..Len(isoRelationships) :
                    \A j \in 1..(k - 1) :
                        isoRelationships[j].Id # isoRelationships[k].Id}
    IN SelectSeq(isoRelationships,
                 LAMBDA r : \E k \in kept : isoRelationships[k] = r)

AuditRelationships(isoRelationships) ==
    AuditIdsFrom(isoRelationships, 1, {})

\* A target check that would resolve every target against the package root.
DanglingTargetsFromRoot(isoRelationships, owner, files) ==
    {k \in 1..Len(isoRelationships) :
        /\ ~isoRelationships[k].Target.external
        /\ isoRelationships[k].Target.path \notin files}

\* Lines 113-116: the targets the audit warns about.  owner is the
\* directory isoRelsFile.parent.parent.
DanglingTargets(isoRelationships, owner, files) ==
    {k \in 1..Len(isoRelationships) :
        /\ ~isoRelationships[k].Target.external
        /\ (owner \o isoRelationships[k].Target.path) \notin files}

(***************************************************************************)
(* The audit of one relationship part on its own.                          *)
(***************************************************************************)
VARIABLES relsBefore, relsAfter, relsAudited

relsVars == <<relsBefore, relsAfter, relsAudited>>

MaxRels == 3

RelIds == {<<"rId", 1>>, <<"rId", 2>>, <<"R", 2>>, <<"R", 3>>}

RelTargets ==
    {[external |-> TRUE], [external |-> FALSE, path |-> <<"document.xml">>]}

RelTypes == {"image", "hyperlink"}

RelsInit ==
    /\ relsBefore \in
          UNION {[1..n -> [Id : RelIds, Type : RelTypes, Target : RelTargets]] :
                    n \in 0..MaxRels}
    /\ relsAfter = <<>>
    /\ relsAudited = FALSE

RelsIdle ==
    /\ relsBefore = <<>>
    /\ relsAfter = <<>>
    /\ relsAudited = FALSE

ApplyValidateRelationships ==
    /\ ~relsAudited
    /\ relsAudited' = TRUE
    /\ relsAfter' = AuditRelationships(relsBefore)
    /\ UNCHANGED relsBefore

(***************************************************************************)
(* The package pipelines: XMLDocumentCorrector.CorrectDocument and         *)
(* DocxValidator.ValidateAndFixDocx.                                       *)
(*                                                                         *)
(* A part is [kind, xml, rewritten, paragraphs, rels]:                     *)
(*   kind        "xml" (matches **/*.xml), "rels" (matches **/*.rels) or   *)
(*               "binary"                                                  *)
(*   xml         what the recovering parser makes of its bytes: "ok" (no   *)
(*               error), "recoverable" (parsed, error_log not empty) or    *)
(*               "unparseable" (the parse raises)                          *)
(*   rewritten   its bytes were replaced by a serialization of the tree    *)
(*   paragraphs  its w:p elements in document order, each                  *)
(*               [runs, table, cell]: the texts of its w:t elements, and   *)
(*               the table and cell it lies in (0, 0 outside tables)       *)
(*   rels        its Relationship entries                                  *)
(* warnings holds the dangling-target warnings of the audit; isoSuccess    *)
(* the value each repair pass returned to its caller, in order: "True" or  *)
(* "False" (_ValidateAndFixXmlFiles, line 94) or "None" (_ValidateXmlFiles *)
(* has no return statement).                                               *)
(***************************************************************************)
VARIABLES pipeline, archiveValid, package, disk, tree, curPart, pc, stages,
          result, output, isoParagraphs, isoBatches, batchSize, batchStart,
          isoSectionMappings, fallbackK, tableIdx, cellStart, partQueue,
          paraK, scope, calls, warnings, isoSuccess

pipeVars == <<pipeline, archiveValid, package, disk, tree, curPart, pc,
              stages, result, output, isoParagraphs, isoBatches, batchSize,
              batchStart,
              isoSectionMappings, fallbackK, tableIdx, cellStart, partQueue,
              paraK, scope, calls, warnings, isoSuccess>>

batchVars == <<isoParagraphs, isoBatches, batchSize, batchStart,
               isoSectionMappings,
               fallbackK>>

tableVars == <<tableIdx, cellStart>>

partVars == <<partQueue, paraK, scope>>

inputVars == <<pipeline, archiveValid, package>>

\* batchSize=10 of line 205, batchSize=5 of line 288, the cell step of
\* line 281.
BodyBatchSize == 10
TableBatchSize == 5
TableCellStep == 5

XmlPart(state, paragraphs) ==
    [kind |-> "xml", xml |-> state, rewritten |-> FALSE,
     paragraphs |-> paragraphs, rels |-> <<>>]

RelsPart(state, rels) ==
    [kind |-> "rels", xml |-> state, rewritten |-> FALSE,
     paragraphs |-> <<>>, rels |-> rels]

BinaryPart ==
    [kind |-> "binary", xml |-> "ok", rewritten |-> FALSE,
     paragraphs |-> <<>>, rels |-> <<>>]

Para(runs) == [runs |-> runs, table |-> 0, cell |-> 0]

CellPara(runs, t, c) == [runs |-> runs, table |-> t, cell |-> c]

HeaderPath == <<"word", "header1.xml">>
FooterPath == <<"word", "footer1.xml">>
CommentsPath == <<"word", "comments.xml">>
FootnotesPath == <<"word", "footnotes.xml">>
EndnotesPath == <<"word", "endnotes.xml">>
ImagePath == <<"word", "media", "image1.png">>

Rel(id, type, target) == [Id |-> id, Type |-> type, Target |-> target]

RootRelsEntries ==
    <<Rel(<<"rId", 1>>, "officeDocument",
          [external |-> FALSE, path |-> DocXmlPath])>>

\* A body of three paragraphs with text, one of whitespace and one
\* without runs; no table.
PackageBody ==
    (ContentTypesPath :> XmlPart("ok", <<>>)) @@
    (RelsPath :> RelsPart("ok", RootRelsEntries)) @@
    (DocXmlPath :> XmlPart("ok",
        <<Para(<< <<"a">>, <<"b">> >>),
          Para(<< <<" ">> >>),
          Para(<< <<"a", "b">>, <<>>, <<"a">> >>),
          Para(<<>>),
          Para(<< <<"b">> >>)>>))

\* A body of one paragraph and a one-cell table, a header, a footer
\* without text, relationship parts (one with a duplicated identifier and
\* a dangling target) and an image.
PackageMixed ==
    (ContentTypesPath :> XmlPart("ok", <<>>)) @@
    (RelsPath :> RelsPart("recoverable", RootRelsEntries)) @@
    (DocRelsPath :> RelsPart("ok",
        <<Rel(<<"rId", 1>>, "header",
              [external |-> FALSE, path |-> <<"header1.xml">>]),
          Rel(<<"rId", 1>>, "image",
              [external |-> FALSE, path |-> <<"media", "image1.png">>]),
          Rel(<<"rId", 2>>, "styles",
              [external |-> FALSE, path |-> <<"styles.xml">>]),
          Rel(<<"rId", 3>>, "hyperlink", [external |-> TRUE])>>)) @@
    (DocXmlPath :> XmlPart("ok",
        <<Para(<< <<"a">> >>),
          CellPara(<< <<"b">>, <<"a">> >>, 1, 1)>>)) @@
    (HeaderPath :> XmlPart("recoverable", <<Para(<< <<"a">>, <<"b">> >>)>>)) @@
    (FooterPath :> XmlPart("ok", <<Para(<< <<" ">>, <<>> >>)>>)) @@
    (ImagePath :> BinaryPart)

\* No document body; notes parts, one of them unparseable, one of three
\* paragraphs (the second of whitespace).
PackageNotes ==
    (ContentTypesPath :> XmlPart("ok", <<>>)) @@
    (RelsPath :> RelsPart("ok", RootRelsEntries)) @@
    (CommentsPath :> XmlPart("unparseable", <<>>)) @@
    (FootnotesPath :> XmlPart("ok",
        <<Para(<< <<"a">>, <<"a", "b">> >>),
          Para(<< <<" ">> >>),
          Para(<< <<"b">> >>)>>)) @@
    (EndnotesPath :> XmlPart("recoverable", <<Para(<< <<"b">> >>)>>))

\* A body that cannot be parsed, beside a header that can.
PackageBroken ==
    (ContentTypesPath :> XmlPart("ok", <<>>)) @@
    (RelsPath :> RelsPart("ok", RootRelsEntries)) @@
    (DocXmlPath :> XmlPart("unparseable", <<>>)) @@
    (HeaderPath :> XmlPart("ok", <<Para(<< <<"b">>, <<"b">> >>)>>))

Packages == {PackageBody, PackageMixed, PackageNotes, PackageBroken}

NoDisk == <<>>

Files(d) == DOMAIN d

\* ''.join(element.text if element.text else '' ...) of a paragraph
\* (lines 224, 294, 345).
ParagraphText(isoParagraph) == Join(isoParagraph.runs)

\* A test that would skip only the paragraphs without w:t elements.
SkippedWithoutRunsOnly(isoParagraph) == Len(isoParagraph.runs) = 0

\* A paragraph the routines skip: no w:t element, or text that is empty
\* or whitespace only (lines 222-226, 292-296, 343-347).
Skipped(isoParagraph) ==
    \/ Len(isoParagraph.runs) = 0
    \/ IsBlank(ParagraphText(isoParagraph))

PipeInit ==
    /\ pipeline \in {"CorrectDocument", "ValidateAndFixDocx"}
    /\ archiveValid \in BOOLEAN
    /\ package \in (IF archiveValid THEN Packages ELSE {NoDisk})
    /\ disk = NoDisk
    /\ tree = <<>>
    /\ curPart = <<>>
    /\ pc = "start"
    /\ stages = <<>>
    /\ result = "running"
    /\ output = <<>>
    /\ isoParagraphs = <<>>
    /\ isoBatches = <<>>
    /\ batchSize = 0
    /\ batchStart = 0
    /\ isoSectionMappings = <<>>
    /\ fallbackK = 0
    /\ tableIdx = 0
    /\ cellStart = 0
    /\ partQueue = <<>>
    /\ paraK = 0
    /\ scope = "none"
    /\ calls = <<>>
    /\ warnings = {}
    /\ isoSuccess = <<>>

PipeIdle ==
    /\ pipeline = "none"
    /\ archiveValid = FALSE
    /\ package = NoDisk
    /\ disk = NoDisk
    /\ tree = <<>>
    /\ curPart = <<>>
    /\ pc = "idle"
    /\ stages = <<>>
    /\ result = "none"
    /\ output = <<>>
    /\ isoParagraphs = <<>>
    /\ isoBatches = <<>>
    /\ batchSize = 0
    /\ batchStart = 0
    /\ isoSectionMappings = <<>>
    /\ fallbackK = 0
    /\ tableIdx = 0
    /\ cellStart = 0
    /\ partQueue = <<>>
    /\ paraK = 0
    /\ scope = "none"
    /\ calls = <<>>
    /\ warnings = {}
    /\ isoSuccess = <<>>

(***************************************************************************)
(* The XML repair pass.                                                    *)
(***************************************************************************)
\* A repair that would write back every part it could parse.
RepairedPartAlways(part) ==
    IF part.kind # "binary" /\ part.xml # "unparseable"
    THEN [part EXCEPT !.xml = "ok", !.rewritten = TRUE]
    ELSE part

\* One file of the loop of lines 81-93 and 181-192: a part whose parse
\* recorded errors is replaced by the serialized recovered tree; a part
\* that parses cleanly, or not at all, keeps its bytes.
RepairedPart(part) ==
    IF part.kind # "binary" /\ part.xml = "recoverable"
    THEN [part EXCEPT !.xml = "ok", !.rewritten = TRUE]
    ELSE part

RepairedDisk(d) == [f \in DOMAIN d |-> RepairedPart(d[f])]

\* The parts whose parse raises.
FailedParts(d) ==
    {f \in DOMAIN d : d[f].kind # "binary" /\ d[f].xml = "unparseable"}

(***************************************************************************)
(* XMLDocumentCorrector.CorrectDocument, stage by stage.                   *)
(***************************************************************************)
\* An extraction that would go on to the repair pass whatever the archive.
CorrectDocumentExtractLenient ==
    /\ pipeline = "CorrectDocument"
    /\ pc = "start"
    /\ stages' = Append(stages, "Extract")
    /\ disk' = package
    /\ pc' = "repair1"
    /\ UNCHANGED <<inputVars, isoSuccess, warnings, tree, curPart, result, output, batchVars,
                   tableVars, partVars, calls, cgVars>>

\* Lines 155-157: extraction.  zipfile.BadZipFile is not caught: it leaves
\* CorrectDocument through the finally clause.
CorrectDocumentExtract ==
    /\ pipeline = "CorrectDocument"
    /\ pc = "start"
    /\ stages' = Append(stages, "Extract")
    /\ IF archiveValid
       THEN /\ disk' = package
            /\ pc' = "repair1"
            /\ UNCHANGED result
       ELSE /\ result' = "raised BadZipFile"
            /\ pc' = "done"
            /\ UNCHANGED disk
    /\ UNCHANGED <<inputVars, isoSuccess, warnings, tree, curPart, output, batchVars, tableVars,
                   partVars, calls, cgVars>>

\* _ValidateXmlFiles, lines 178-192 (called at lines 158 and 162): a parse
\* that raises is logged and the loop goes on.
ValidateXmlFiles ==
    /\ pipeline = "CorrectDocument"
    /\ pc \in {"repair1", "repair2"}
    /\ stages' = Append(stages, "Repair")
    /\ disk' = RepairedDisk(disk)
    /\ isoSuccess' = Append(isoSuccess, "None")
    /\ pc' = IF pc = "repair1" THEN "body" ELSE "assemble"
    /\ UNCHANGED <<inputVars, warnings, tree, curPart, result, output, batchVars,
                   tableVars, partVars, calls, cgVars>>

\* The positions of _CorrectDocumentXml and of what it calls.
BodyStage == {"body", "batch", "batchWait", "fallback", "singleWait", "tables"}

\* _CorrectDocumentXml, lines 194-205: nothing to do without
\* word/document.xml; a parse that raises is caught at line 212; otherwise
\* every w:p of the part, table paragraphs included, goes to the batching
\* routine with batchSize=10.
CorrectDocumentXmlBegin ==
    /\ pipeline = "CorrectDocument"
    /\ pc = "body"
    /\ stages' = Append(stages, "Body")
    /\ IF DocXmlPath \notin Files(disk) \/ disk[DocXmlPath].xml = "unparseable"
       THEN /\ pc' = "headers"
            /\ UNCHANGED <<tree, curPart, batchVars, tableVars>>
       ELSE /\ tree' = disk[DocXmlPath].paragraphs
            /\ curPart' = DocXmlPath
            /\ isoParagraphs' = [k \in 1..Len(disk[DocXmlPath].paragraphs) |-> k]
            /\ isoBatches' = <<>>
            /\ batchSize' = BodyBatchSize
            /\ batchStart' = 0
            /\ isoSectionMappings' = <<>>
            /\ fallbackK' = 0
            /\ tableIdx' = 1
            /\ cellStart' = 0
            /\ pc' = "batch"
    /\ UNCHANGED <<inputVars, isoSuccess, warnings, disk, result, output, partVars, calls, cgVars>>

(***************************************************************************)
(* _ProcessParagraphsInBatches, lines 215-248.  isoParagraphs holds the    *)
(* positions of the paragraphs in the tree, batchStart is the loop         *)
(* variable i of line 216.                                                 *)
(***************************************************************************)
\* A slice that would leave out the last paragraph of a full batch.
BatchOfShort(paragraphs, start, size) ==
    SubSeq(paragraphs, start + 1, Min(start + size, Len(paragraphs)) - 1)

\* isoParagraphs[i:i+batchSize]
BatchOf(paragraphs, start, size) ==
    SubSeq(paragraphs, start + 1, Min(start + size, Len(paragraphs)))

\* Lines 218-232: the mappings of the paragraphs of a batch that are
\* submitted, in batch order.
RECURSIVE SectionMappings(_, _)
SectionMappings(t, isoBatch) ==
    IF isoBatch = <<>> THEN <<>>
    ELSE (IF Skipped(t[Head(isoBatch)])
          THEN <<>>
          ELSE <<[paragraph |-> Head(isoBatch),
                  Original_text |-> ParagraphText(t[Head(isoBatch)])]>>)
         \o SectionMappings(t, Tail(isoBatch))

SectionTexts(mappings) ==
    [k \in 1..Len(mappings) |-> mappings[k].Original_text]

Paragraphs(mappings) ==
    [k \in 1..Len(mappings) |-> mappings[k].paragraph]

\* Lines 216-239: the next batch is collected; a batch without text is
\* passed over, any other is sent as one request.
BatchCollect ==
    /\ pc = "batch"
    /\ batchStart < Len(isoParagraphs)
    /\ LET isoBatch == BatchOf(isoParagraphs, batchStart, batchSize)
           mappings == SectionMappings(tree, isoBatch)
       IN /\ isoBatches' = Append(isoBatches, isoBatch)
          /\ IF mappings = <<>>
             THEN /\ batchStart' = batchStart + batchSize
                  /\ UNCHANGED <<pc, isoSectionMappings, calls, cgVars>>
             ELSE /\ isoSectionMappings' = mappings
                  /\ CallCorrectGrammar(
                         JoinSections(SectionTexts(mappings)), "batch")
                  /\ calls' = Append(calls,
                                     [caller |-> "batch",
                                      part |-> curPart,
                                      paragraphs |-> Paragraphs(mappings),
                                      segments |-> 0])
                  /\ pc' = "batchWait"
                  /\ UNCHANGED batchStart
    /\ UNCHANGED <<inputVars, isoSuccess, warnings, disk, tree, curPart, stages, result, output,
                   isoParagraphs, batchSize, fallbackK, tableVars, partVars>>

\* An application that would give every mapping the first section.
RECURSIVE ApplySectionsFirstToAll(_, _, _, _)
ApplySectionsFirstToAll(t, isoCorrectedSections, mappings, k) ==
    IF k > Len(mappings) THEN t
    ELSE ApplySectionsFirstToAll(
             [t EXCEPT ![mappings[k].paragraph].runs =
                 DistributeTextToParagraph(@, mappings[k].Original_text,
                                           isoCorrectedSections[1])],
             isoCorrectedSections, mappings, k + 1)

\* Lines 245-248: the k-th section onward is applied to the k-th mapping
\* onward; a section equal to the original text is passed over.
RECURSIVE ApplySections(_, _, _, _)
ApplySections(t, isoCorrectedSections, mappings, k) ==
    IF k > Len(mappings) \/ k > Len(isoCorrectedSections) THEN t
    ELSE LET isoMapping == mappings[k]
             isoCorrectedSection == isoCorrectedSections[k]
         IN ApplySections(
                IF isoCorrectedSection = isoMapping.Original_text
                THEN t
                ELSE [t EXCEPT ![isoMapping.paragraph].runs =
                         DistributeTextToParagraph(@, isoMapping.Original_text,
                                                   isoCorrectedSection)],
                isoCorrectedSections, mappings, k + 1)

\* Lines 240-248: the answer is split; on a segment-count mismatch the
\* batch falls back to one call per mapped paragraph, otherwise the
\* sections are applied.
BatchReturn ==
    /\ pc = "batchWait"
    /\ cgPc = "returned"
    /\ cgCaller = "batch"
    /\ cgResult # NoneContent
    /\ LET isoCorrectedSections == SplitSections(cgResult)
       IN /\ calls' = [calls EXCEPT ![Len(calls)].segments =
                                         Len(isoCorrectedSections)]
          /\ IF Len(isoCorrectedSections) # Len(isoSectionMappings)
             THEN /\ fallbackK' = 1
                  /\ pc' = "fallback"
                  /\ UNCHANGED <<tree, batchStart>>
             ELSE /\ tree' = ApplySections(tree, isoCorrectedSections,
                                           isoSectionMappings, 1)
                  /\ batchStart' = batchStart + batchSize
                  /\ pc' = "batch"
                  /\ UNCHANGED fallbackK
    /\ CorrectGrammarTaken
    /\ UNCHANGED <<inputVars, isoSuccess, warnings, disk, curPart, stages, result, output,
                   isoParagraphs, isoBatches, batchSize, isoSectionMappings,
                   tableVars,
                   partVars>>

\* A handler that would write the tree as far as it had been corrected.
BatchSplitRaisesWriting ==
    /\ pc = "batchWait"
    /\ cgPc = "returned"
    /\ cgCaller = "batch"
    /\ cgResult = NoneContent
    /\ IF pipeline = "CorrectDocument"
       THEN /\ disk' = [disk EXCEPT ![DocXmlPath] =
                           [@ EXCEPT !.paragraphs = tree, !.rewritten = TRUE]]
            /\ pc' = "headers"
       ELSE /\ pc' = "raised"
            /\ UNCHANGED disk
    /\ CorrectGrammarTaken
    /\ UNCHANGED <<inputVars, isoSuccess, warnings, tree, curPart, stages,
                   result, output, batchVars, tableVars, partVars, calls>>

\* Line 240 when CorrectGrammar returned None: None.split raises
\* AttributeError, which neither _ProcessParagraphsInBatches nor
\* _ProcessTableOptimized catches.  Under _CorrectDocumentXml the handler
\* of lines 212-213 logs it, the tree with the corrections made so far is
\* left behind unwritten (lines 208-211 are not reached) and
\* CorrectDocument goes on at line 160.
BatchSplitRaises ==
    /\ pc = "batchWait"
    /\ cgPc = "returned"
    /\ cgCaller = "batch"
    /\ cgResult = NoneContent
    /\ pc' = IF pipeline = "CorrectDocument" THEN "headers" ELSE "raised"
    /\ CorrectGrammarTaken
    /\ UNCHANGED <<inputVars, isoSuccess, warnings, disk, tree, curPart,
                   stages, result, output, batchVars, tableVars, partVars,
                   calls>>

\* A fallback that would stop after its first paragraph.
FallbackAdvanceFirstOnly ==
    /\ fallbackK' = 0
    /\ batchStart' = batchStart + batchSize
    /\ pc' = "batch"

\* The step after the paragraph at fallbackK of a fallback: the next
\* mapping, or, after the last one, the next batch (line 244).
FallbackAdvance ==
    IF fallbackK < Len(isoSectionMappings)
    THEN /\ fallbackK' = fallbackK + 1
         /\ pc' = "fallback"
         /\ UNCHANGED batchStart
    ELSE /\ fallbackK' = 0
         /\ batchStart' = batchStart + batchSize
         /\ pc' = "batch"

\* _ProcessSingleParagraph, lines 290-300, for the mapping at fallbackK:
\* the text is read again; a paragraph without text is left alone, any
\* other is sent on its own.
ProcessSingleParagraph ==
    /\ pc = "fallback"
    /\ LET isoParagraph == tree[isoSectionMappings[fallbackK].paragraph]
       IN IF Skipped(isoParagraph)
          THEN /\ FallbackAdvance
               /\ UNCHANGED <<calls, cgVars>>
          ELSE /\ CallCorrectGrammar(ParagraphText(isoParagraph), "single")
               /\ calls' = Append(calls,
                     [caller |-> "single",
                      part |-> curPart,
                      paragraphs |-> <<isoSectionMappings[fallbackK].paragraph>>,
                      segments |-> 0])
               /\ pc' = "singleWait"
               /\ UNCHANGED <<fallbackK, batchStart>>
    /\ UNCHANGED <<inputVars, isoSuccess, warnings, disk, tree, curPart, stages, result, output,
                   isoParagraphs, isoBatches, batchSize, isoSectionMappings,
                   tableVars,
                   partVars>>

\* Lines 300-303: an answer equal to the text changes nothing, any other
\* is distributed over the runs.
SingleReturn ==
    /\ pc = "singleWait"
    /\ cgPc = "returned"
    /\ cgCaller = "single"
    /\ LET k == isoSectionMappings[fallbackK].paragraph
           isoParagraphText == ParagraphText(tree[k])
       IN tree' = IF cgResult = isoParagraphText
                  THEN tree
                  ELSE [tree EXCEPT ![k].runs =
                           DistributeTextToParagraph(@, isoParagraphText,
                                                     TextOf(cgResult))]
    /\ FallbackAdvance
    /\ CorrectGrammarTaken
    /\ UNCHANGED <<inputVars, isoSuccess, warnings, disk, curPart, stages, result, output,
                   isoParagraphs, isoBatches, batchSize, isoSectionMappings,
                   tableVars,
                   partVars, calls>>

(***************************************************************************)
(* The tables of the body: lines 206-207 and _ProcessTableOptimized,       *)
(* lines 279-288.  tableIdx is the table, cellStart the loop variable i of *)
(* line 281.                                                               *)
(***************************************************************************)
Max(S) == IF S = {} THEN 0 ELSE CHOOSE x \in S : \A y \in S : y <= x

NumTables(t) == Max({t[k].table : k \in 1..Len(t)})

NumCells(t, tbl) ==
    Max({t[k].cell : k \in {j \in 1..Len(t) : t[j].table = tbl}})

\* The paragraphs of the cells first+1 .. last of a table, in document
\* order (lines 284-286).
CellParagraphs(t, tbl, first, last) ==
    SelectSeq([k \in 1..Len(t) |-> k],
              LAMBDA k : /\ t[k].table = tbl
                         /\ t[k].cell > first
                         /\ t[k].cell <= last)

\* The batching routine has gone through its list (the loop of line 216
\* ends) and returns to _CorrectDocumentXml or _ProcessTableOptimized.
BatchesDone ==
    /\ pc = "batch"
    /\ batchStart >= Len(isoParagraphs)
    /\ pc' = "tables"
    /\ UNCHANGED <<inputVars, isoSuccess, warnings, disk, tree, curPart, stages, result, output,
                   batchVars, tableVars, partVars, calls, cgVars>>

\* Lines 281-288: the next five cells of the current table; their
\* paragraphs go to the batching routine with batchSize=5.
ProcessTableOptimized ==
    /\ pc = "tables"
    /\ tableIdx <= NumTables(tree)
    /\ LET last == Min(cellStart + TableCellStep, NumCells(tree, tableIdx))
           isoCellParagraphs == CellParagraphs(tree, tableIdx, cellStart, last)
       IN /\ IF isoCellParagraphs # <<>>
             THEN /\ isoParagraphs' = isoCellParagraphs
                  /\ isoBatches' = <<>>
                  /\ batchSize' = TableBatchSize
                  /\ batchStart' = 0
                  /\ isoSectionMappings' = <<>>
                  /\ fallbackK' = 0
                  /\ pc' = "batch"
             ELSE UNCHANGED <<pc, batchVars>>
          /\ IF cellStart + TableCellStep < NumCells(tree, tableIdx)
             THEN /\ cellStart' = cellStart + TableCellStep
                  /\ UNCHANGED tableIdx
             ELSE /\ cellStart' = 0
                  /\ tableIdx' = tableIdx + 1
    /\ UNCHANGED <<inputVars, isoSuccess, warnings, disk, tree, curPart, stages, result, output,
                   partVars, calls, cgVars>>

\* Lines 208-211: the tree is written back to word/document.xml.
CorrectDocumentXmlWrite ==
    /\ pc = "tables"
    /\ tableIdx > NumTables(tree)
    /\ disk' = [disk EXCEPT ![DocXmlPath] =
                    [@ EXCEPT !.paragraphs = tree, !.rewritten = TRUE]]
    /\ tree' = <<>>
    /\ curPart' = <<>>
    /\ pc' = "headers"
    /\ UNCHANGED <<inputVars, isoSuccess, warnings, stages, result, output, batchVars, tableVars,
                   partVars, calls, cgVars>>

(***************************************************************************)
(* _CorrectHeadersFooters (lines 305-320) and _CorrectOtherParts (lines    *)
(* 322-339): part by part, paragraph by paragraph.                         *)
(***************************************************************************)
HeaderFiles(files) ==
    {f \in files : Len(f) = 2 /\ f[1] = "word" /\ f[2] \in {"header1.xml"}}

FooterFiles(files) ==
    {f \in files : Len(f) = 2 /\ f[1] = "word" /\ f[2] \in {"footer1.xml"}}

\* isoOtherParts of line 323, in its order.
OtherParts == <<CommentsPath, FootnotesPath, EndnotesPath>>

\* Lines 306-307: the header parts, then the footer parts.
CorrectHeadersFootersBegin ==
    /\ pipeline = "CorrectDocument"
    /\ pc = "headers"
    /\ stages' = Append(stages, "HeadersFooters")
    /\ \E hs \in Orderings(HeaderFiles(Files(disk))),
          fs \in Orderings(FooterFiles(Files(disk))) :
          partQueue' = hs \o fs
    /\ scope' = "headers"
    /\ pc' = "part"
    /\ UNCHANGED <<inputVars, isoSuccess, warnings, disk, tree, curPart, result, output, batchVars,
                   tableVars, paraK, calls, cgVars>>

\* Lines 323-327: the notes parts that exist.
CorrectOtherPartsBegin ==
    /\ pipeline = "CorrectDocument"
    /\ pc = "notes"
    /\ stages' = Append(stages, "OtherParts")
    /\ partQueue' = SelectSeq(OtherParts, LAMBDA f : f \in Files(disk))
    /\ scope' = "notes"
    /\ pc' = "part"
    /\ UNCHANGED <<inputVars, isoSuccess, warnings, disk, tree, curPart, result, output, batchVars,
                   tableVars, paraK, calls, cgVars>>

\* Lines 309-313 and 328-332: the next part is parsed; a parse that raises
\* is caught (lines 319, 338) and the loop goes on with the part after it.
OpenPart ==
    /\ pc = "part"
    /\ partQueue # <<>>
    /\ IF disk[Head(partQueue)].xml = "unparseable"
       THEN /\ partQueue' = Tail(partQueue)
            /\ UNCHANGED <<tree, curPart, paraK, pc>>
       ELSE /\ tree' = disk[Head(partQueue)].paragraphs
            /\ curPart' = Head(partQueue)
            /\ paraK' = 1
            /\ pc' = "para"
            /\ UNCHANGED partQueue
    /\ UNCHANGED <<inputVars, isoSuccess, warnings, disk, stages, result, output, batchVars,
                   tableVars, scope, calls, cgVars>>

\* A paragraph routine that would send the paragraph together with the
\* paragraphs after it, joined by the sentinel, in one request.
ProcessParagraphLxmlJoined ==
    /\ pc = "para"
    /\ paraK <= Len(tree)
    /\ IF Skipped(tree[paraK])
       THEN /\ paraK' = paraK + 1
            /\ UNCHANGED <<pc, calls, cgVars>>
       ELSE LET rest == SelectSeq([k \in 1..(Len(tree) - paraK + 1) |->
                                      paraK + k - 1],
                                  LAMBDA q : ~Skipped(tree[q]))
            IN /\ CallCorrectGrammar(
                      JoinSections([k \in 1..Len(rest) |->
                                       ParagraphText(tree[rest[k]])]), "lxml")
               /\ calls' = Append(calls, [caller |-> "lxml",
                                          part |-> curPart,
                                          paragraphs |-> rest,
                                          segments |-> 0])
               /\ pc' = "lxmlWait"
               /\ UNCHANGED paraK
    /\ UNCHANGED <<inputVars, isoSuccess, warnings, disk, tree, curPart, stages, result, output,
                   batchVars, tableVars, partQueue, scope>>

\* _ProcessParagraphLxml, lines 341-351, for paragraph paraK of the part.
ProcessParagraphLxml ==
    /\ pc = "para"
    /\ paraK <= Len(tree)
    /\ IF Skipped(tree[paraK])
       THEN /\ paraK' = paraK + 1
            /\ UNCHANGED <<pc, calls, cgVars>>
       ELSE /\ CallCorrectGrammar(ParagraphText(tree[paraK]), "lxml")
            /\ calls' = Append(calls, [caller |-> "lxml",
                                       part |-> curPart,
                                       paragraphs |-> <<paraK>>,
                                       segments |-> 0])
            /\ pc' = "lxmlWait"
            /\ UNCHANGED paraK
    /\ UNCHANGED <<inputVars, isoSuccess, warnings, disk, tree, curPart, stages, result, output,
                   batchVars, tableVars, partQueue, scope>>

\* Lines 351-354.
LxmlReturn ==
    /\ pc = "lxmlWait"
    /\ cgPc = "returned"
    /\ cgCaller = "lxml"
    /\ LET isoParagraphText == ParagraphText(tree[paraK])
       IN tree' = IF cgResult = isoParagraphText
                  THEN tree
                  ELSE [tree EXCEPT ![paraK].runs =
                           DistributeCorrectedTextImproved(@, isoParagraphText,
                                                           TextOf(cgResult))]
    /\ paraK' = paraK + 1
    /\ pc' = "para"
    /\ CorrectGrammarTaken
    /\ UNCHANGED <<inputVars, isoSuccess, warnings, disk, curPart, stages, result, output,
                   batchVars, tableVars, partQueue, scope, calls>>

\* Lines 315-318 and 334-337: the tree is written back to the part.
WritePart ==
    /\ pc = "para"
    /\ paraK > Len(tree)
    /\ disk' = [disk EXCEPT ![curPart] =
                    [@ EXCEPT !.paragraphs = tree, !.rewritten = TRUE]]
    /\ partQueue' = Tail(partQueue)
    /\ tree' = <<>>
    /\ curPart' = <<>>
    /\ paraK' = 0
    /\ pc' = "part"
    /\ UNCHANGED <<inputVars, isoSuccess, warnings, stages, result, output, batchVars, tableVars,
                   scope, calls, cgVars>>

\* The loop over the parts ends: _CorrectHeadersFooters returns to line
\* 161, _CorrectOtherParts to line 162.
PartsDone ==
    /\ pc = "part"
    /\ partQueue = <<>>
    /\ pc' = IF scope = "headers" THEN "notes" ELSE "repair2"
    /\ scope' = "none"
    /\ UNCHANGED <<inputVars, isoSuccess, warnings, disk, tree, curPart, stages, result, output,
                   batchVars, tableVars, partQueue, paraK, calls, cgVars>>

\* Lines 163-170: the archive is written and returned.
CorrectDocumentAssemble ==
    /\ pipeline = "CorrectDocument"
    /\ pc = "assemble"
    /\ stages' = Append(stages, "Assemble")
    /\ output' \in CreateDocxProperly(Files(disk))
    /\ result' = "returned output"
    /\ pc' = "done"
    /\ UNCHANGED <<inputVars, isoSuccess, warnings, disk, tree, curPart, batchVars, tableVars,
                   partVars, calls, cgVars>>

(***************************************************************************)
(* DocxValidator.ValidateAndFixDocx, lines 54-71, stage by stage.          *)
(***************************************************************************)
\* Lines 60-64: extraction; zipfile.BadZipFile is caught and None returned.
ValidateAndFixDocxExtract ==
    /\ pipeline = "ValidateAndFixDocx"
    /\ pc = "start"
    /\ stages' = Append(stages, "Extract")
    /\ IF archiveValid
       THEN /\ disk' = package
            /\ pc' = "repair1"
            /\ UNCHANGED result
       ELSE /\ result' = "returned None"
            /\ pc' = "done"
            /\ UNCHANGED disk
    /\ UNCHANGED <<inputVars, isoSuccess, warnings, tree, curPart, output, batchVars, tableVars,
                   partVars, calls, cgVars>>

\* Lines 65-67 with _ValidateAndFixXmlFiles, lines 77-94: every part is
\* visited; when the parse of any part raised, None is returned.
ValidateAndFixXmlFiles ==
    /\ pipeline = "ValidateAndFixDocx"
    /\ pc = "repair1"
    /\ stages' = Append(stages, "Repair")
    /\ disk' = RepairedDisk(disk)
    /\ isoSuccess' = Append(isoSuccess,
                            IF FailedParts(disk) = {} THEN "True" ELSE "False")
    /\ IF FailedParts(disk) = {}
       THEN /\ pc' = "audit"
            /\ UNCHANGED result
       ELSE /\ result' = "returned None"
            /\ pc' = "done"
    /\ UNCHANGED <<inputVars, warnings, tree, curPart, output, batchVars, tableVars,
                   partVars, calls, cgVars>>

\* One relationship part of _ValidateRelationships, lines 99-117: its
\* entries are audited and its bytes always rewritten.
AuditedPart(part) ==
    IF part.kind = "rels"
    THEN [part EXCEPT !.rels = AuditRelationships(@), !.rewritten = TRUE]
    ELSE part

\* isoRelsFile.parent.parent: the directory that owns a relationship part.
OwnerOf(isoRelsFile) == SubSeq(isoRelsFile, 1, Len(isoRelsFile) - 2)

\* The "Relationship target not found" warnings of line 116, as the
\* <<part, entry>> pairs they are about.
AuditWarnings(files) ==
    UNION {{<<f, k>> : k \in DanglingTargets(files[f].rels, OwnerOf(f),
                                             DOMAIN files)} :
              f \in {g \in DOMAIN files : files[g].kind = "rels"}}

\* Lines 68-69 with _ValidateRelationships, lines 96-121.
ValidateRelationships ==
    /\ pipeline = "ValidateAndFixDocx"
    /\ pc = "audit"
    /\ stages' = Append(stages, "Audit")
    /\ disk' = [f \in DOMAIN disk |-> AuditedPart(disk[f])]
    /\ warnings' = AuditWarnings(disk)
    /\ pc' = "assemble"
    /\ UNCHANGED <<inputVars, isoSuccess, tree, curPart, result, output, batchVars,
                   tableVars, partVars, calls, cgVars>>

\* Lines 70-71.
ValidateAndFixDocxAssemble ==
    /\ pipeline = "ValidateAndFixDocx"
    /\ pc = "assemble"
    /\ stages' = Append(stages, "Assemble")
    /\ output' \in CreateDocx(Files(disk))
    /\ result' = "returned output"
    /\ pc' = "done"
    /\ UNCHANGED <<inputVars, isoSuccess, warnings, disk, tree, curPart, batchVars, tableVars,
                   partVars, calls, cgVars>>

\* A correction call in progress inside the pipeline.
PipeCorrectGrammar ==
    /\ pc \in {"batchWait", "singleWait", "lxmlWait"}
    /\ UNCHANGED pipeVars

(***************************************************************************)
(* Temporary files and directories over one ProcessDocument run, lines     *)
(* 1036-1108, with the operations it calls that create them:               *)
(* ExtractTextFromDoc (lines 1016-1034), CorrectDocument (lines 146-176)   *)
(* and CreateSafeDocxWithFormatting (lines 803-838).                       *)
(*                                                                         *)
(* tmpKind is the extension of the uploaded file, tmpMode the              *)
(* compatibility mode, tmpFaults the operations in which a statement       *)
(* between the creation of the temporary file and its removal raises.      *)
(* docx.Document raises on a file that is not a package, so it raises in   *)
(* CreateSafeDocxWithFormatting for every upload that is not a .docx.      *)
(***************************************************************************)
VARIABLES tmpKind, tmpMode, tmpFaults, tmpPc, tmpLive, tmpRaising, tmpResult

tmpVars == <<tmpKind, tmpMode, tmpFaults, tmpPc, tmpLive, tmpRaising,
             tmpResult>>

FileKinds == {"docx", "doc", "txt"}

CompatibilityModes == {"Preserve All", "Safe Mode", "Ultra Safe Mode"}

FaultPoints ==
    {"ExtractTextFromDoc", "CorrectDocument", "ProcessDocument",
     "CreateSafeDocxWithFormatting"}

\* The temporary resources, named by what creates them.
ExtractTempFile == "ExtractTextFromDoc: NamedTemporaryFile"
CorrectTempDir == "CorrectDocument: TemporaryDirectory"
CorrectTempFile == "CorrectDocument: NamedTemporaryFile"
ProcessTempFile == "ProcessDocument: NamedTemporaryFile"
SafeTempFile == "CreateSafeDocxWithFormatting: NamedTemporaryFile"

TmpInit ==
    /\ tmpKind \in FileKinds
    /\ tmpMode \in CompatibilityModes
    /\ tmpFaults \in SUBSET FaultPoints
    /\ tmpPc = "start"
    /\ tmpLive = {}
    /\ tmpRaising = FALSE
    /\ tmpResult = "running"

TmpIdle ==
    /\ tmpKind = "none"
    /\ tmpMode = "none"
    /\ tmpFaults = {}
    /\ tmpPc = "idle"
    /\ tmpLive = {}
    /\ tmpRaising = FALSE
    /\ tmpResult = "none"

\* Lines 1053 and 1088: what ProcessDocument does after the text has been
\* extracted.
AfterExtract ==
    IF tmpKind = "docx" /\ tmpMode = "Preserve All" THEN "correctEnter"
    ELSE IF tmpMode = "Safe Mode" THEN "safeCreate"
    ELSE "finish"

\* ExtractTextFromDoc, lines 1017-1021 and 1029-1034: a .docx is written to
\* a temporary file; any other upload is decoded in memory.
ExtractTextCreate ==
    /\ tmpPc = "start"
    /\ IF tmpKind = "docx"
       THEN /\ tmpLive' = tmpLive \cup {ExtractTempFile}
            /\ tmpPc' = "extractOpen"
       ELSE /\ tmpPc' = AfterExtract
            /\ UNCHANGED tmpLive
    /\ UNCHANGED <<tmpKind, tmpMode, tmpFaults, tmpRaising, tmpResult>>

\* Lines 1022-1028: the file is removed after the text has been read; when
\* reading raises, ValueError is raised instead and ProcessDocument raises
\* it on (lines 1106-1108).
ExtractTextOpen ==
    /\ tmpPc = "extractOpen"
    /\ IF "ExtractTextFromDoc" \in tmpFaults
       THEN /\ tmpResult' = "raised"
            /\ tmpPc' = "done"
            /\ UNCHANGED tmpLive
       ELSE /\ tmpLive' = tmpLive \ {ExtractTempFile}
            /\ tmpPc' = AfterExtract
            /\ UNCHANGED tmpResult
    /\ UNCHANGED <<tmpKind, tmpMode, tmpFaults, tmpRaising>>

\* CorrectDocument, lines 147-152: the extraction directory and the copy of
\* the uploaded bytes.
CorrectDocumentEnter ==
    /\ tmpPc = "correctEnter"
    /\ tmpLive' = tmpLive \cup {CorrectTempDir, CorrectTempFile}
    /\ tmpPc' = "correctTry"
    /\ UNCHANGED <<tmpKind, tmpMode, tmpFaults, tmpRaising, tmpResult>>

\* Lines 154-170: the stages, any of which may raise.
CorrectDocumentTry ==
    /\ tmpPc = "correctTry"
    /\ tmpRaising' = ("CorrectDocument" \in tmpFaults)
    /\ tmpPc' = "correctFinally"
    /\ UNCHANGED <<tmpKind, tmpMode, tmpFaults, tmpLive, tmpResult>>

\* Lines 171-176: the finally clause removes the copy.
CorrectDocumentFinally ==
    /\ tmpPc = "correctFinally"
    /\ tmpLive' = tmpLive \ {CorrectTempFile}
    /\ tmpPc' = "correctExit"
    /\ UNCHANGED <<tmpKind, tmpMode, tmpFaults, tmpRaising, tmpResult>>

\* Line 147: leaving the with statement removes the directory, on a return
\* and on an exception alike.
CorrectDocumentExit ==
    /\ tmpPc = "correctExit"
    /\ tmpLive' = tmpLive \ {CorrectTempDir}
    /\ IF tmpRaising
       THEN /\ tmpResult' = "raised"
            /\ tmpPc' = "done"
       ELSE /\ tmpPc' = "rereadCreate"
            /\ UNCHANGED tmpResult
    /\ tmpRaising' = FALSE
    /\ UNCHANGED <<tmpKind, tmpMode, tmpFaults>>

\* ProcessDocument, lines 1061-1065: the corrected package is written to a
\* temporary file.
ProcessDocumentRereadCreate ==
    /\ tmpPc = "rereadCreate"
    /\ tmpLive' = tmpLive \cup {ProcessTempFile}
    /\ tmpPc' = "rereadOpen"
    /\ UNCHANGED <<tmpKind, tmpMode, tmpFaults, tmpRaising, tmpResult>>

\* Lines 1066-1073: the file is removed after the text has been read; when
\* reading raises, the error is logged and the run goes on.
ProcessDocumentRereadOpen ==
    /\ tmpPc = "rereadOpen"
    /\ tmpLive' = IF "ProcessDocument" \in tmpFaults
                  THEN tmpLive
                  ELSE tmpLive \ {ProcessTempFile}
    /\ tmpPc' = "finish"
    /\ UNCHANGED <<tmpKind, tmpMode, tmpFaults, tmpRaising, tmpResult>>

\* CreateSafeDocxWithFormatting, lines 804-808.
SafeDocxCreate ==
    /\ tmpPc = "safeCreate"
    /\ tmpLive' = tmpLive \cup {SafeTempFile}
    /\ tmpPc' = "safeBuild"
    /\ UNCHANGED <<tmpKind, tmpMode, tmpFaults, tmpRaising, tmpResult>>

\* Lines 809-838: the file is removed after the new document has been
\* saved; when anything before that raises, CreateSafeDocx is used instead.
SafeDocxBuild ==
    /\ tmpPc = "safeBuild"
    /\ tmpLive' = IF \/ "CreateSafeDocxWithFormatting" \in tmpFaults
                     \/ tmpKind # "docx"
                  THEN tmpLive
                  ELSE tmpLive \ {SafeTempFile}
    /\ tmpPc' = "finish"
    /\ UNCHANGED <<tmpKind, tmpMode, tmpFaults, tmpRaising, tmpResult>>

\* Lines 1094-1105: the analysis, and the return of the results.
ProcessDocumentFinish ==
    /\ tmpPc = "finish"
    /\ tmpResult' = "returned"
    /\ tmpPc' = "done"
    /\ UNCHANGED <<tmpKind, tmpMode, tmpFaults, tmpLive, tmpRaising>>

(***************************************************************************)
(* The application session: DocumentCorrectionAppView, lines 1111-1499.    *)
(* One action is one run of the script (Run, lines 1492-1499) on the page  *)
(* current_state selects, from the user's interaction that started it to   *)
(* st.rerun() or the end of the script; st.rerun() ends the run by an      *)
(* exception that is not an Exception, so the handler of line 1266 does    *)
(* not see the one of line 1264.  The variables are the keys of            *)
(* st.session_state; a key that was never assigned is "absent".            *)
(***************************************************************************)
VARIABLES current_state, processing_results, download_count, filename,
          processor, user_instructions, uploaded_file

sessVars == <<current_state, processing_results, download_count, filename,
              processor, user_instructions, uploaded_file>>

\* The successful runs of the processing page a session is followed for.
MaxDownloads == 4

\* One upload for each accepted type (line 1183).
FileNames == {"a.docx", "b.doc", "c.txt"}

\* Values of the instruction text area (lines 1174-1179).
Instructions == {"", "formal", "brief"}

\* processing_results = None
NoResults == <<"None">>

\* The dictionary ProcessDocument returns for an upload (lines 1037-1043,
\* 1105).
IsoResults(isoUploadedFile) == <<"isoResults", isoUploadedFile>>

\* InitSessionState, lines 1125-1135, on a new session.
InitSessionState ==
    /\ current_state = "upload"
    /\ processing_results = NoResults
    /\ download_count = 0
    /\ filename = "None"
    /\ processor = "None"
    /\ user_instructions = "absent"
    /\ uploaded_file = "absent"

\* RenderUploadPage, lines 1164-1218: the script runs with the uploader
\* holding isoUploadedFile (or nothing) and the text area
\* isoAdditionalInstructions; the button exists only with a file (line
\* 1186) and only a run started by pressing it enters lines 1208-1218.
RenderUploadPage ==
    /\ current_state = "upload"
    /\ \E isoUploadedFile \in FileNames \cup {"None"},
          isoAdditionalInstructions \in Instructions, pressed \in BOOLEAN :
          IF isoUploadedFile # "None" /\ pressed
          THEN /\ processor' = "DocumentProcessorForm"
               /\ current_state' = "processing"
               /\ filename' = isoUploadedFile
               /\ user_instructions' = isoAdditionalInstructions
               /\ uploaded_file' = isoUploadedFile
          ELSE UNCHANGED <<processor, current_state, filename,
                           user_instructions, uploaded_file>>
    /\ UNCHANGED <<processing_results, download_count>>

\* A processing page that would show the results page after a failure.
RenderProcessingPageLenient ==
    /\ current_state = "processing"
    /\ processor' = "DocumentProcessorForm"
    /\ \/ /\ download_count < MaxDownloads
          /\ processing_results' = IsoResults(uploaded_file)
          /\ current_state' = "results"
          /\ download_count' = download_count + 1
       \/ /\ current_state' = "results"
          /\ UNCHANGED <<processing_results, download_count>>
    /\ UNCHANGED <<filename, user_instructions, uploaded_file>>

\* RenderProcessingPage, lines 1220-1270: ProcessDocument returns its
\* results (lines 1261-1264) or raises (lines 1266-1270).
RenderProcessingPage ==
    /\ current_state = "processing"
    /\ processor' = "DocumentProcessorForm"
    /\ \/ /\ download_count < MaxDownloads
          /\ processing_results' = IsoResults(uploaded_file)
          /\ current_state' = "results"
          /\ download_count' = download_count + 1
       \/ /\ current_state' = "upload"
          /\ UNCHANGED <<processing_results, download_count>>
    /\ UNCHANGED <<filename, user_instructions, uploaded_file>>

\* RenderResultsPage, lines 1272-1343: only a run started by pressing
\* "Process New Document" enters lines 1341-1343.
RenderResultsPage ==
    /\ current_state = "results"
    /\ \E pressed \in BOOLEAN :
          IF pressed
          THEN /\ current_state' = "upload"
               /\ processing_results' = NoResults
          ELSE UNCHANGED <<current_state, processing_results>>
    /\ UNCHANGED <<download_count, filename, processor, user_instructions,
                   uploaded_file>>

(***************************************************************************)
(* The specifications.                                                     *)
(***************************************************************************)
vars == <<pipeVars, cgVars, distVars, asmVars, relsVars, tmpVars,
          sessVars>>

DistIdle ==
    /\ distElements = <<>>
    /\ distOriginal = <<>>
    /\ distCorrected = <<>>
    /\ distRoutine = "none"
    /\ distResult = <<>>
    /\ distFailure = "none"

\* What a specification leaves alone.
NoDistribute == UNCHANGED distVars
NoAssemble == UNCHANGED asmVars
NoRelationships == UNCHANGED relsVars
NoPipeline == UNCHANGED <<pipeVars, cgVars>>
NoTemporaries == UNCHANGED tmpVars
NoSession == UNCHANGED sessVars

Init ==
    /\ PipeInit /\ CGIdle /\ DistIdle /\ AsmIdle /\ RelsIdle /\ TmpIdle
    /\ InitSessionState

Aside ==
    /\ NoDistribute /\ NoAssemble /\ NoRelationships /\ NoTemporaries
    /\ NoSession

Next ==
    \/ CorrectDocumentExtract /\ Aside
    \/ ValidateXmlFiles /\ Aside
    \/ CorrectDocumentXmlBegin /\ Aside
    \/ BatchCollect /\ Aside
    \/ BatchReturn /\ Aside
    \/ BatchSplitRaises /\ Aside
    \/ ProcessSingleParagraph /\ Aside
    \/ SingleReturn /\ Aside
    \/ BatchesDone /\ Aside
    \/ ProcessTableOptimized /\ Aside
    \/ CorrectDocumentXmlWrite /\ Aside
    \/ CorrectHeadersFootersBegin /\ Aside
    \/ CorrectOtherPartsBegin /\ Aside
    \/ OpenPart /\ Aside
    \/ ProcessParagraphLxml /\ Aside
    \/ LxmlReturn /\ Aside
    \/ WritePart /\ Aside
    \/ PartsDone /\ Aside
    \/ CorrectDocumentAssemble /\ Aside
    \/ ValidateAndFixDocxExtract /\ Aside
    \/ ValidateAndFixXmlFiles /\ Aside
    \/ ValidateRelationships /\ Aside
    \/ ValidateAndFixDocxAssemble /\ Aside
    \/ PipeCorrectGrammar /\ CorrectGrammarEnter /\ Aside
    \/ PipeCorrectGrammar /\ RequestSucceeds /\ Aside
    \/ PipeCorrectGrammar /\ RequestFails /\ Aside

Spec == Init /\ [][Next]_vars

\* The redistribution routines on drawn inputs.
InitDistribute ==
    /\ DistInit /\ PipeIdle /\ CGIdle /\ AsmIdle /\ RelsIdle /\ TmpIdle
    /\ InitSessionState

OnlyDistribute ==
    /\ NoPipeline /\ NoAssemble /\ NoRelationships /\ NoTemporaries
    /\ NoSession

NextDistribute ==
    \/ ApplyDistributeTextToParagraph /\ OnlyDistribute
    \/ ApplyDistributeCorrectedTextImproved /\ OnlyDistribute

SpecDistribute == InitDistribute /\ [][NextDistribute]_vars

\* The redistribution routines assignment by assignment.
InitSetText ==
    /\ SetTextInit /\ PipeIdle /\ CGIdle /\ AsmIdle /\ RelsIdle /\ TmpIdle
    /\ InitSessionState

NextSetText ==
    \/ RunDistributeTextToParagraph /\ OnlyDistribute
    \/ RunDistributeCorrectedTextImproved /\ OnlyDistribute

SpecSetText == InitSetText /\ [][NextSetText]_vars

\* The assemblers on drawn part trees.
InitAssemble ==
    /\ AsmInit /\ PipeIdle /\ CGIdle /\ DistIdle /\ RelsIdle /\ TmpIdle
    /\ InitSessionState

OnlyAssemble ==
    /\ NoPipeline /\ NoDistribute /\ NoRelationships /\ NoTemporaries
    /\ NoSession

NextAssemble ==
    \/ ApplyCreateDocx /\ OnlyAssemble
    \/ ApplyCreateDocxProperly /\ OnlyAssemble

SpecAssemble == InitAssemble /\ [][NextAssemble]_vars

\* The relationship audit on drawn relationship parts.
InitRelationships ==
    /\ RelsInit /\ PipeIdle /\ CGIdle /\ DistIdle /\ AsmIdle /\ TmpIdle
    /\ InitSessionState

OnlyRelationships ==
    /\ NoPipeline /\ NoDistribute /\ NoAssemble /\ NoTemporaries
    /\ NoSession

NextRelationships == ApplyValidateRelationships /\ OnlyRelationships

SpecRelationships == InitRelationships /\ [][NextRelationships]_vars

\* _ProcessParagraphsInBatches on its own: one call over a drawn paragraph
\* list with a drawn batchSize.
MaxParagraphs == 3
MaxBatchSize == 3

\* A paragraph with text, one of whitespace only, one without w:t elements.
ListParagraphs ==
    {Para(<< <<"a">>, <<"b">> >>), Para(<< <<" ">> >>), Para(<<>>)}

\* The lists the routine is called with: the w:p elements of a part in
\* document order (line 203), or the paragraphs of a group of cells (lines
\* 283-286), where a paragraph of a nested table is listed under its own
\* cell and again under every cell around it; here the last paragraph of
\* the list may be such a paragraph, in lists of up to MaxParagraphs
\* entries.
ParagraphLists(n) ==
    {[k \in 1..n |-> k]} \cup
    (IF n \in 1..(MaxParagraphs - 1)
     THEN {[k \in 1..(n + 1) |-> IF k <= n THEN k ELSE n]}
     ELSE {})

InitBatches ==
    /\ pipeline = "_ProcessParagraphsInBatches"
    /\ archiveValid = TRUE
    /\ package = NoDisk
    /\ disk = NoDisk
    /\ tree \in SeqsUpTo(ListParagraphs, MaxParagraphs)
    /\ curPart = DocXmlPath
    /\ pc = "batch"
    /\ stages = <<>>
    /\ result = "running"
    /\ output = <<>>
    /\ isoParagraphs \in ParagraphLists(Len(tree))
    /\ isoBatches = <<>>
    /\ batchSize \in 1..MaxBatchSize
    /\ batchStart = 0
    /\ isoSectionMappings = <<>>
    /\ fallbackK = 0
    /\ tableIdx = 1
    /\ cellStart = 0
    /\ partQueue = <<>>
    /\ paraK = 0
    /\ scope = "none"
    /\ calls = <<>>
    /\ warnings = {}
    /\ isoSuccess = <<>>
    /\ CGIdle /\ DistIdle /\ AsmIdle /\ RelsIdle /\ TmpIdle
    /\ InitSessionState

NextBatches ==
    \/ BatchCollect /\ Aside
    \/ BatchReturn /\ Aside
    \/ BatchSplitRaises /\ Aside
    \/ ProcessSingleParagraph /\ Aside
    \/ SingleReturn /\ Aside
    \/ BatchesDone /\ Aside
    \/ PipeCorrectGrammar /\ CorrectGrammarEnter /\ Aside
    \/ PipeCorrectGrammar /\ RequestSucceeds /\ Aside
    \/ PipeCorrectGrammar /\ RequestFails /\ Aside

SpecBatches == InitBatches /\ [][NextBatches]_vars

\* The temporary files and directories of one ProcessDocument run.
InitTemporaries ==
    /\ TmpInit /\ PipeIdle /\ CGIdle /\ DistIdle /\ AsmIdle /\ RelsIdle
    /\ InitSessionState

OnlyTemporaries ==
    /\ NoPipeline /\ NoDistribute /\ NoAssemble /\ NoRelationships
    /\ NoSession

NextTemporaries ==
    \/ ExtractTextCreate /\ OnlyTemporaries
    \/ ExtractTextOpen /\ OnlyTemporaries
    \/ CorrectDocumentEnter /\ OnlyTemporaries
    \/ CorrectDocumentTry /\ OnlyTemporaries
    \/ CorrectDocumentFinally /\ OnlyTemporaries
    \/ CorrectDocumentExit /\ OnlyTemporaries
    \/ ProcessDocumentRereadCreate /\ OnlyTemporaries
    \/ ProcessDocumentRereadOpen /\ OnlyTemporaries
    \/ SafeDocxCreate /\ OnlyTemporaries
    \/ SafeDocxBuild /\ OnlyTemporaries
    \/ ProcessDocumentFinish /\ OnlyTemporaries

SpecTemporaries == InitTemporaries /\ [][NextTemporaries]_vars

\* The application session, run by run.
InitSession ==
    /\ InitSessionState
    /\ PipeIdle /\ CGIdle /\ DistIdle /\ AsmIdle /\ RelsIdle /\ TmpIdle

OnlySession ==
    /\ NoPipeline /\ NoDistribute /\ NoAssemble /\ NoRelationships
    /\ NoTemporaries

NextSession ==
    \/ RenderUploadPage /\ OnlySession
    \/ RenderProcessingPage /\ OnlySession
    \/ RenderResultsPage /\ OnlySession

SpecSession == InitSession /\ [][NextSession]_vars

(***************************************************************************)
(* Properties of run redistribution, under SpecDistribute.                 *)
(***************************************************************************)
\* C1: after either redistribution routine has been applied to a paragraph
\* of n text runs, with any corrected text, the paragraph still has exactly
\* n text runs.
C1_RunCount ==
    distRoutine # "none" => Len(distResult) = Len(distElements)

\* Reached: the body routine has rewritten three runs with a corrected text
\* longer than the original; the degenerate branch has kept three runs for
\* an empty corrected text.
C1_Witness ==
    /\ distRoutine = "body"
    /\ Len(distElements) = MaxRuns
    /\ Len(distOriginal) > 0
    /\ Len(distCorrected) > Len(distOriginal)
    /\ distResult # distElements

\* C2: after either redistribution routine has been applied to a paragraph
\* whose original text is the concatenation of its run texts, the
\* concatenation of the run texts in run order is the corrected text.
C2_Concatenation ==
    distRoutine # "none" => Join(distResult) = distCorrected

\* Reached: a non-degenerate redistribution over at least two runs that
\* received text, with a corrected text of another length.
C2_Witness ==
    /\ distRoutine \in {"body", "improved"}
    /\ Len(distOriginal) > 0
    /\ Len(distCorrected) > 0
    /\ Len(distCorrected) # Len(distOriginal)
    /\ Cardinality({k \in 1..Len(distResult) : Len(distResult[k]) > 0}) >= 2

\* C3: redistribution with the corrected text equal to the original text
\* gives every run back its own text.
C3_Idempotence ==
    (distRoutine # "none" /\ distCorrected = distOriginal)
        => distResult = distElements

(***************************************************************************)
(* Properties of the batching protocol and of the correction call, under   *)
(* Spec.                                                                   *)
(***************************************************************************)
\* The answer to the batch request at calls[i] had another number of
\* segments than the request had paragraphs.
Mismatched(i) ==
    /\ calls[i].caller = "batch"
    /\ calls[i].segments # 0
    /\ calls[i].segments # Len(calls[i].paragraphs)

\* The number of single calls the fallback of the batch at calls[i] has
\* made so far: all of them, unless that fallback is still under way.
FallbackCallsDue(i) ==
    IF \A j \in (i + 1)..Len(calls) : calls[j].caller # "batch"
    THEN CASE pc = "fallback" -> fallbackK - 1
           [] pc = "singleWait" -> fallbackK
           [] OTHER -> Len(calls[i].paragraphs)
    ELSE Len(calls[i].paragraphs)

\* The calls that follow a mismatched batch answer are one single-paragraph
\* call for each submitted paragraph, in order and none left out.
FallbackCalls ==
    \A i \in 1..Len(calls) :
        Mismatched(i) =>
            LET n == Len(calls[i].paragraphs)
                due == FallbackCallsDue(i)
            IN /\ due \in 0..n
               /\ i + due <= Len(calls)
               /\ \A j \in 1..due :
                     calls[i + j] = [caller |-> "single",
                                     part |-> calls[i].part,
                                     paragraphs |-> <<calls[i].paragraphs[j]>>,
                                     segments |-> 0]
               /\ (due = n /\ i + n < Len(calls))
                     => calls[i + n + 1].caller # "single"

\* The step that receives a mismatched batch answer changes no paragraph.
NothingApplied ==
    (/\ pc = "batchWait"
     /\ cgPc = "returned"
     /\ cgResult # NoneContent
     /\ Len(SplitSections(cgResult)) # Len(isoSectionMappings))
        => tree' = tree

C6_StageOrder ==
    (pipeline = "CorrectDocument" /\ result = "returned output")
        => stages = <<"Extract", "Repair", "Audit", "Body", "HeadersFooters",
                      "OtherParts", "Repair", "Assemble">>

\* C8: a run on a valid archive ends with an output package, whatever the
\* parts, the relationships, the answers of the correction service.
C8_BestEffortOutput ==
    (archiveValid /\ pc = "done")
        => (result = "returned output" /\ output # <<>>)

\* C9: a run on an input that is not a valid archive makes one extraction
\* attempt, which fails; no other stage runs, nothing is extracted, no
\* correction call is made and no output is written.
C9_CorruptArchiveFatal ==
    (~archiveValid /\ pipeline # "none") =>
        /\ stages \in {<<>>, <<"Extract">>}
        /\ disk = NoDisk
        /\ output = <<>>
        /\ calls = <<>>
        /\ cgPc = "idle"
        /\ pc \in {"start", "done"}
        /\ pc = "done" => /\ stages = <<"Extract">>
                          /\ result \in {"raised BadZipFile", "returned None"}

\* Reached: CorrectDocument has raised zipfile.BadZipFile out of the
\* extraction of an invalid archive.
C9_Witness ==
    /\ ~archiveValid
    /\ pipeline = "CorrectDocument"
    /\ pc = "done"
    /\ result = "raised BadZipFile"

(***************************************************************************)
(* The relationship audit, under SpecRelationships.                        *)
(***************************************************************************)
\* C7: after the audit of a relationship part its identifiers are pairwise
\* distinct.
C7_UniqueIds ==
    relsAudited =>
        \A i, j \in 1..Len(relsAfter) :
            i # j => relsAfter[i].Id # relsAfter[j].Id

(***************************************************************************)
(* The assemblers, under SpecAssemble.                                     *)
(***************************************************************************)
\* C10: the archive an assembler has written holds exactly the files of
\* the part tree, each one once.
C10_PartSetPreserved ==
    asmBy # "none" =>
        /\ Entries(asmArchive) = asmFiles
        /\ \A f \in asmFiles : Occurrences(asmArchive, f) = 1

\* The place of a path among the entries of an archive (0 when absent).
PlaceOf(archive, path) ==
    IF \E k \in 1..Len(archive) : archive[k] = path
    THEN CHOOSE k \in 1..Len(archive) : archive[k] = path
    ELSE 0

\* C11: in the archive an assembler has written, [Content_Types].xml, when
\* the part tree has it, is the first entry, and _rels/.rels, when the part
\* tree has it, is the entry right after it (the first entry when there is
\* no [Content_Types].xml); neither occurs at a later place.
C11_EntryOrder ==
    asmBy # "none" =>
        LET first == IF ContentTypesPath \in asmFiles THEN 1 ELSE 0
        IN /\ ContentTypesPath \in asmFiles
                => /\ PlaceOf(asmArchive, ContentTypesPath) = 1
                   /\ Occurrences(asmArchive, ContentTypesPath) = 1
           /\ RelsPath \in asmFiles
                => /\ PlaceOf(asmArchive, RelsPath) = first + 1
                   /\ Occurrences(asmArchive, RelsPath) = 1

\* Reached: _CreateDocxProperly has written a tree holding both parts and
\* two more files.
C11_Witness ==
    /\ asmBy = "_CreateDocxProperly"
    /\ ContentTypesPath \in asmFiles
    /\ RelsPath \in asmFiles
    /\ Len(asmArchive) = 4

(***************************************************************************)
(* Temporary resources, under SpecTemporaries.                             *)
(***************************************************************************)
\* C12: when a ProcessDocument run has ended, by a return or by an
\* exception, no temporary file or directory created during it is left.
C12_TemporariesRemoved ==
    tmpPc = "done" => tmpLive = {}

(***************************************************************************)
(* Properties of the batching protocol, under Spec (continued).            *)
(***************************************************************************)
\* The answer to the batch request under way has as many segments as
\* paragraphs were submitted.
MatchedAnswer ==
    /\ pc = "batchWait"
    /\ cgPc = "returned"
    /\ cgResult # NoneContent
    /\ Len(SplitSections(cgResult)) = Len(isoSectionMappings)

\* The step that receives a matched answer leaves the k-th submitted
\* paragraph with the k-th segment as its text, for every k, and every
\* other paragraph as it was.
SegmentsMapped ==
    MatchedAnswer =>
        LET isoCorrectedSections == SplitSections(cgResult)
            submitted == {isoSectionMappings[k].paragraph :
                              k \in 1..Len(isoSectionMappings)}
        IN /\ Len(tree') = Len(tree)
           /\ \A k \in 1..Len(isoSectionMappings) :
                 ParagraphText(tree'[isoSectionMappings[k].paragraph])
                     = isoCorrectedSections[k]
           /\ \A q \in 1..Len(tree) :
                 q \notin submitted => tree'[q] = tree[q]

RECURSIVE Concat(_)
Concat(seqs) == IF seqs = <<>> THEN <<>> ELSE Head(seqs) \o Concat(Tail(seqs))

\* A batch has been taken and the loop variable has not moved past it:
\* not yet, or, the routine having raised, not at all.
BatchUnderWay == pc \in {"batchWait", "fallback", "singleWait", "raised"}

\* C14: during one call of the batching routine the batches taken so far,
\* put one after the other, are the paragraph list up to the end of the
\* last batch taken; every batch but the last has exactly batchSize
\* paragraphs and the last has 1..batchSize; the loop variable stands at
\* the start of the batch under way, or, between batches, right after the
\* last one; and when the routine returns, the batches are the whole list.
C14_BatchPartition ==
    LET n == Len(isoBatches)
        taken == Concat(isoBatches)
    IN /\ taken = SubSeq(isoParagraphs, 1, Len(taken))
       /\ \A k \in 1..n :
             /\ Len(isoBatches[k]) \in 1..batchSize
             /\ k < n => Len(isoBatches[k]) = batchSize
       /\ batchStart = batchSize * (IF BatchUnderWay THEN n - 1 ELSE n)
       /\ BatchUnderWay => n >= 1
       /\ pc = "tables" => taken = isoParagraphs

\* Reached: a list of three paragraphs has been gone through with
\* batchSize 2, in a batch of two and a batch of one.
C14_Witness ==
    /\ pc = "tables"
    /\ Len(isoParagraphs) = 3
    /\ batchSize = 2
    /\ isoBatches = << <<1, 2>>, <<3>> >>

(***************************************************************************)
(* Properties of the body passes, under Spec.                              *)
(***************************************************************************)
\* The paragraphs a call submitted, as a set.
Submitted(call) == {call.paragraphs[k] : k \in 1..Len(call.paragraphs)}

\* C15: no paragraph of the document body is submitted in the batch
\* requests of more than one pass: no two batch requests of a run hold the
\* same paragraph of word/document.xml.
C15_OnePassPerParagraph ==
    \A i, j \in 1..Len(calls) :
        (/\ i # j
         /\ calls[i].caller = "batch"
         /\ calls[j].caller = "batch"
         /\ calls[i].part = DocXmlPath
         /\ calls[j].part = DocXmlPath)
            => Submitted(calls[i]) \cap Submitted(calls[j]) = {}

\* A paragraph without text runs, or with no character other than
\* whitespace in its runs.
EmptyParagraph(isoParagraph) ==
    \A r \in 1..Len(isoParagraph.runs) :
        \A c \in 1..Len(isoParagraph.runs[r]) :
            isoParagraph.runs[r][c] = " "

\* A step that makes a correction call submits no empty paragraph, sends
\* the texts of the submitted paragraphs alone, and, for a batch, submits
\* every paragraph of the batch that is not empty and counts those only.
NoEmptySubmitted ==
    Len(calls') > Len(calls) =>
        LET call == calls'[Len(calls')]
            texts == [k \in 1..Len(call.paragraphs) |->
                         ParagraphText(tree[call.paragraphs[k]])]
        IN /\ \A q \in Submitted(call) : ~EmptyParagraph(tree[q])
           /\ cgText' = JoinSections(texts)
           /\ call.caller = "batch" =>
                 LET isoBatch == isoBatches'[Len(isoBatches')]
                 IN /\ Submitted(call) =
                          {isoBatch[k] : k \in {j \in 1..Len(isoBatch) :
                               ~EmptyParagraph(tree[isoBatch[j]])}}
                    /\ Len(isoSectionMappings') = Len(call.paragraphs)

\* No step changes an empty paragraph of the part being processed.
EmptyUntouched ==
    (curPart' = curPart /\ Len(tree') = Len(tree)) =>
        \A q \in 1..Len(tree) : EmptyParagraph(tree[q]) => tree'[q] = tree[q]

\* C16: a paragraph without text runs, or whose text is empty or
\* whitespace only, is in no batch request and no single call, is not
\* counted among the submitted paragraphs, and is never changed.
C16_EmptySkipped == [][NoEmptySubmitted /\ EmptyUntouched]_vars

\* Reached: of a batch of five paragraphs, the whitespace paragraph and the
\* paragraph without runs were left out of the request.
C16_Witness ==
    /\ pc = "batchWait"
    /\ Len(tree) = 5
    /\ EmptyParagraph(tree[2])
    /\ Len(tree[4].runs) = 0
    /\ isoBatches = << <<1, 2, 3, 4, 5>> >>
    /\ calls[Len(calls)].paragraphs = <<1, 3, 5>>

\* The run that owns an original character offset (0-based): the first run
\* whose texts, with those of the runs before it, reach beyond the offset.
RunOwning(isoTextElements, offset) ==
    CHOOSE k \in 1..Len(isoTextElements) :
        /\ Len(Join(SubSeq(isoTextElements, 1, k))) > offset
        /\ Len(Join(SubSeq(isoTextElements, 1, k - 1))) <= offset

\* The run texts of the proportional mapping: run k holds, in order, the
\* corrected characters at the offsets i for which the run owning original
\* offset min(floor(i * Lo / Lc), Lo - 1) is k.
ProportionalRuns(isoTextElements, isoCorrectedText) ==
    LET Lo == Len(Join(isoTextElements))
        Lc == Len(isoCorrectedText)
        Owner(i) == RunOwning(isoTextElements, Min((i * Lo) \div Lc, Lo - 1))
    IN [k \in 1..Len(isoTextElements) |->
           LET mine == {i \in 0..(Lc - 1) : Owner(i) = k}
           IN [n \in 1..Cardinality(mine) |->
                  isoCorrectedText[
                      (CHOOSE i \in mine :
                          Cardinality({j \in mine : j < i}) = n - 1) + 1]]]

\* C17: when the original and the corrected text are both non-empty, either
\* routine leaves every run with the corrected characters the proportional
\* mapping assigns to it, so both routines give the same run texts.
C17_ProportionalMapping ==
    (distRoutine # "none" /\ Len(distOriginal) > 0 /\ Len(distCorrected) > 0)
        => distResult = ProportionalRuns(distElements, distCorrected)

\* C18: redistributing the corrected text "Hello world" over the runs
\* "Hello " and "wrld" leaves the first run with "Hello" and the second run
\* with " world".
C18_WorkedExample ==
    (/\ distRoutine # "none"
     /\ distElements = HelloParagraph.runs
     /\ distCorrected = HelloParagraph.corrected)
        => distResult = << <<"H", "e", "l", "l", "o">>,
                           <<" ", "w", "o", "r", "l", "d">> >>

\* C19: when a failure occurs while the corrected text is mapped onto the
\* runs, by either routine, the paragraph ends with the whole corrected
\* text in its first run and every other run cleared.
C19_FailureFallback ==
    (distRoutine # "none" /\ distFailure # "none")
        => /\ distResult[1] = distCorrected
           /\ \A k \in 2..Len(distResult) : distResult[k] = <<>>

\* The calls made so far for paragraph q of a part.
CallsFor(part, q) ==
    {i \in 1..Len(calls) : calls[i].part = part /\ q \in Submitted(calls[i])}

\* A header, footer, comments, footnotes or endnotes part is being processed.
NonBodyPartOpen == curPart # <<>> /\ curPart # DocXmlPath

\* The body stage is over and its last batch request was answered with
\* None.
BodyRaised ==
    /\ pc \notin BodyStage
    /\ \E i \in 1..Len(calls) :
          /\ calls[i].caller = "batch"
          /\ calls[i].segments = 0

\* Non-body parts are opened only once the body stage is over, and no
\* body call follows a non-body call; a non-body call is for one paragraph.
NonBodyAfterBody ==
    /\ NonBodyPartOpen =>
          /\ \E s \in 1..Len(stages) : stages[s] = "Body"
          /\ pc \in {"para", "lxmlWait"}
          /\ (DocXmlPath \in Files(disk) /\ disk[DocXmlPath].xml # "unparseable")
                => (disk[DocXmlPath].rewritten \/ BodyRaised)
    /\ \A i \in 1..Len(calls) :
          calls[i].part # DocXmlPath =>
              /\ calls[i].caller = "lxml"
              /\ Len(calls[i].paragraphs) = 1
              /\ \A j \in (i + 1)..Len(calls) : calls[j].part # DocXmlPath

\* A call made for a non-body part sends the text of one paragraph, without
\* sentinel; when the part is written back, every paragraph of it that was
\* not empty has had exactly one call, and the empty ones none.
OwnCallPerParagraph ==
    /\ (Len(calls') > Len(calls) /\ NonBodyPartOpen) =>
          LET call == calls'[Len(calls')]
          IN /\ call.part = curPart
             /\ \E q \in 1..Len(tree) :
                   /\ call.paragraphs = <<q>>
                   /\ cgText' = Join(tree[q].runs)
             /\ \A k \in 1..Len(cgText') : cgText'[k] # SECTION_BREAK
    /\ (NonBodyPartOpen /\ curPart' = <<>>) =>
          \A q \in 1..Len(tree) :
              Cardinality(CallsFor(curPart, q)) =
                  IF EmptyParagraph(disk[curPart].paragraphs[q]) THEN 0 ELSE 1

\* C20: headers, footers, comments, footnotes and endnotes are processed
\* only after the body; each of their non-empty paragraphs is corrected by
\* a call of its own, whose request holds that paragraph's text alone and
\* no section sentinel.
C20_NonBodyScopes == []NonBodyAfterBody /\ [][OwnCallPerParagraph]_vars

\* Reached: after the body stage, the footnotes part of three paragraphs is
\* being processed; its first paragraph has had its call and the third
\* paragraph's own call is under way.
C20_Witness ==
    /\ curPart = FootnotesPath
    /\ pc = "lxmlWait"
    /\ paraK = 3
    /\ Len(calls) = 2
    /\ calls[1].paragraphs = <<1>>
    /\ calls[2].paragraphs = <<3>>
    /\ \E s \in 1..Len(stages) : stages[s] = "Body"

\* Entry k carries an identifier that an earlier entry of the part carried.
DuplicateEntry(isoRelationships, k) ==
    \E j \in 1..(k - 1) : isoRelationships[j].Id = isoRelationships[k].Id

\* C21: the audit renames an entry whose identifier was already seen in
\* the part to R<n>, n one greater than the number of entries processed
\* before it (renamed entries included); every other entry keeps its
\* identifier.
C21_SyntheticIdFormat ==
    relsAudited =>
        \A k \in 1..Len(relsBefore) :
            relsAfter[k].Id = IF DuplicateEntry(relsBefore, k)
                              THEN <<"R", k>>
                              ELSE relsBefore[k].Id

\* The entries of a relationship part after the audit, against those
\* before it: as many, in the same order, each with its Type and Target,
\* and with its Id unless an earlier entry of the part carried that Id.
SameButDuplicateIds(before, after) ==
    /\ Len(after) = Len(before)
    /\ \A k \in 1..Len(before) :
          /\ after[k].Type = before[k].Type
          /\ after[k].Target = before[k].Target
          /\ DOMAIN after[k] = DOMAIN before[k]
          /\ ~DuplicateEntry(before, k) => after[k].Id = before[k].Id

\* The audit step: the parts are the same parts, a part that is not a
\* relationship part is untouched, a relationship part keeps its entries
\* but for the Id of duplicates.
AuditFrame ==
    ("Audit" \notin {stages[s] : s \in 1..Len(stages)}
        /\ "Audit" \in {stages'[s] : s \in 1..Len(stages')}) =>
        /\ DOMAIN disk' = DOMAIN disk
        /\ \A f \in DOMAIN disk :
              IF disk[f].kind = "rels"
              THEN /\ disk'[f].kind = "rels"
                   /\ SameButDuplicateIds(disk[f].rels, disk'[f].rels)
              ELSE disk'[f] = disk[f]

\* C22: the relationship audit changes only the Id of duplicate entries:
\* every relationship part keeps the number and order of its entries and
\* each entry's Target and Type, entries with an identifier not seen
\* before keep it, and no other part is modified.
C22_AuditFrame == [][AuditFrame]_vars

\* Reached: the audit has renamed the duplicate in word/_rels/document.xml.rels
\* and left the part's other entries and the header part as they were.
C22_Witness ==
    /\ pipeline = "ValidateAndFixDocx"
    /\ pc = "assemble"
    /\ DocRelsPath \in DOMAIN disk
    /\ Len(disk[DocRelsPath].rels) = 4
    /\ disk[DocRelsPath].rels[1].Id = <<"rId", 1>>
    /\ disk[DocRelsPath].rels[2].Id = <<"R", 2>>
    /\ disk[DocRelsPath].rels[2].Type = "image"
    /\ HeaderPath \in DOMAIN disk

\* The relative targets of the relationship parts for which no part exists
\* at the path resolved against the directory owning the relationship part
\* (the directory above its _rels directory), as <<part, entry>> pairs.
Dangling(files) ==
    {<<f, k>> \in
        UNION {{<<g, j>> : j \in 1..Len(files[g].rels)} :
                  g \in {h \in DOMAIN files : files[h].kind = "rels"}} :
        /\ ~files[f].rels[k].Target.external
        /\ (SubSeq(f, 1, Len(f) - 2) \o files[f].rels[k].Target.path)
               \notin DOMAIN files}

\* The audit step warns about the dangling targets and about nothing else,
\* leaves their entries as they were (but for the Id of a duplicate), goes
\* through every relationship part, reports no failure and hands over to
\* the assembly.
DanglingWarnedOnly ==
    ("Audit" \notin {stages[s] : s \in 1..Len(stages)}
        /\ "Audit" \in {stages'[s] : s \in 1..Len(stages')}) =>
        /\ warnings' = Dangling(disk)
        /\ \A w \in Dangling(disk) :
              LET before == disk[w[1]].rels[w[2]]
                  after == disk'[w[1]].rels[w[2]]
              IN /\ after.Target = before.Target
                 /\ after.Type = before.Type
                 /\ ~DuplicateEntry(disk[w[1]].rels, w[2]) => after = before
        /\ \A f \in DOMAIN disk : disk[f].kind = "rels" => disk'[f].rewritten
        /\ result' = result
        /\ pc' = "assemble"

\* After an audit with warnings the pipeline does not end in a failure.
WarnedStillAssembles ==
    (pipeline = "ValidateAndFixDocx" /\ warnings # {}) =>
        /\ result # "returned None"
        /\ pc = "done" => (result = "returned output" /\ output # <<>>)

\* C23: a dangling relative target only produces a warning: the target is
\* resolved against the directory owning the relationship part, the entry
\* stays as it is, the audit goes through all relationship parts, its
\* outcome is no failure and the pipeline assembles its output.
C23_DanglingWarningOnly ==
    [][DanglingWarnedOnly]_vars /\ []WarnedStillAssembles

\* Reached: the output was assembled although styles.xml, the target of
\* the third entry of word/_rels/document.xml.rels, does not exist; the
\* entry is unchanged and the header target of the first one was found.
C23_Witness ==
    /\ pipeline = "ValidateAndFixDocx"
    /\ pc = "done"
    /\ result = "returned output"
    /\ <<DocRelsPath, 3>> \in warnings
    /\ <<DocRelsPath, 1>> \notin warnings
    /\ disk[DocRelsPath].rels[3] = package[DocRelsPath].rels[3]

\* A repair pass has just run.
RepairStep == Len(isoSuccess') = Len(isoSuccess) + 1

\* The parts of the extraction directory the parser cannot parse at all,
\* and those it parses with errors.
Unparseable(files) ==
    {f \in DOMAIN files :
        files[f].kind \in {"xml", "rels"} /\ files[f].xml = "unparseable"}

Recoverable(files) ==
    {f \in DOMAIN files :
        files[f].kind \in {"xml", "rels"} /\ files[f].xml = "recoverable"}

\* A repair pass repairs every part that can be repaired, whatever the
\* other parts, and returns a failure exactly when some part cannot be
\* parsed at all.
BestEffortAndReported ==
    RepairStep =>
        /\ \A f \in Recoverable(disk) :
              disk'[f].xml = "ok" /\ disk'[f].rewritten
        /\ (isoSuccess'[Len(isoSuccess')] = "False") <=> (Unparseable(disk) # {})

\* C24: when a part cannot be parsed at all, the repair pass still visits
\* and repairs every other part, and the pass reports failure if and only
\* if at least one part failed this way.
C24_RepairBestEffort == [][BestEffortAndReported]_vars

\* A repair pass writes back the parts parsed with errors, with the
\* content the parser recovered, and leaves every other part as it is.
RewrittenOnRecoveryOnly ==
    RepairStep =>
        /\ DOMAIN disk' = DOMAIN disk
        /\ \A f \in DOMAIN disk :
              IF f \in Recoverable(disk)
              THEN /\ disk'[f].rewritten
                   /\ disk'[f].xml = "ok"
                   /\ disk'[f].paragraphs = disk[f].paragraphs
                   /\ disk'[f].rels = disk[f].rels
              ELSE disk'[f] = disk[f]

\* C25: the repair pass replaces a part by its re-serialized recovered
\* tree exactly when the parser recorded errors for it; a part parsed
\* without error is left unchanged by the pass.
C25_RewriteOnRecoveryOnly == [][RewrittenOnRecoveryOnly]_vars

\* Reached: the first repair pass of the corrector has rewritten the
\* header, parsed with errors, and left the cleanly parsed body untouched.
C25_Witness ==
    /\ pipeline = "CorrectDocument"
    /\ pc = "body"
    /\ package = PackageMixed
    /\ package[HeaderPath].xml = "recoverable"
    /\ disk[HeaderPath].rewritten
    /\ disk[DocXmlPath] = package[DocXmlPath]
    /\ ~disk[DocXmlPath].rewritten

\* The run texts of every paragraph, in the extraction directory and in
\* the part being processed, are those of the uploaded package.
RunTextsAsUploaded ==
    /\ \A f \in DOMAIN disk :
          \A q \in 1..Len(package[f].paragraphs) :
              /\ Len(disk[f].paragraphs) = Len(package[f].paragraphs)
              /\ disk[f].paragraphs[q].runs = package[f].paragraphs[q].runs
    /\ curPart # <<>> =>
          /\ Len(tree) = Len(package[curPart].paragraphs)
          /\ \A q \in 1..Len(tree) :
                tree[q].runs = package[curPart].paragraphs[q].runs

\* C26: as long as every correction call has come back with the text it
\* was given (all its requests failed, or the service returned the input
\* unchanged), every run of every paragraph keeps its text, through the
\* body batches, the table batches, the fallbacks, the headers and footers
\* and the notes.
C26_DegradedChangesNothing ==
    (pipeline = "CorrectDocument" /\ ~cgChanged) => RunTextsAsUploaded

\* Reached: a package with body, table, header and footer went through
\* the whole pipeline, calls were made for its body, table and header
\* paragraphs, none came back changed, and the parts were written back.
C26_Witness ==
    /\ pipeline = "CorrectDocument"
    /\ package = PackageMixed
    /\ pc = "done"
    /\ ~cgChanged
    /\ Len(calls) >= 3
    /\ \E i \in 1..Len(calls) : calls[i].part = HeaderPath
    /\ disk[DocXmlPath].rewritten

\* The batch call after which call j was made.
BatchCallBefore(j) ==
    CHOOSE i \in 1..j :
        /\ calls[i].caller = "batch"
        /\ \A h \in (i + 1)..j : calls[h].caller # "batch"

\* The single calls made for the batch of batch call i.
SinglesOf(i) ==
    {j \in (i + 1)..Len(calls) :
        calls[j].caller = "single" /\ BatchCallBefore(j) = i}

\* The batch of batch call i is over: a later batch call exists or the
\* routine has returned.
BatchOver(i) ==
    \/ pc = "tables"
    \/ \E j \in (i + 1)..Len(calls) : calls[j].caller = "batch"

\* A batch that is over has had no single call when the segments matched
\* its k submitted paragraphs, and k single calls when they did not.
CallBudget ==
    \A i \in 1..Len(calls) :
        (calls[i].caller = "batch" /\ BatchOver(i)) =>
            Cardinality(SinglesOf(i)) =
                IF calls[i].segments = Len(calls[i].paragraphs)
                THEN 0
                ELSE Len(calls[i].paragraphs)

\* A batch is taken when no call is under way; it makes no call when none
\* of its paragraphs has text and one batch call otherwise.
BatchCallsInTurn ==
    Len(isoBatches') > Len(isoBatches) =>
        LET isoBatch == isoBatches'[Len(isoBatches')]
            k == Cardinality({n \in 1..Len(isoBatch) :
                                 ~EmptyParagraph(tree[isoBatch[n]])})
        IN /\ cgPc = "idle"
           /\ IF k = 0
              THEN calls' = calls /\ cgPc' = "idle"
              ELSE /\ Len(calls') = Len(calls) + 1
                   /\ calls'[Len(calls')].caller = "batch"
                   /\ Len(calls'[Len(calls')].paragraphs) = k

\* C27: a batch with k submitted paragraphs makes one correction call
\* when the segment count matches, 1 + k when it does not and none when it
\* has no paragraph with text; its calls are over before the next batch
\* makes its first.
C27_CallBudget == []CallBudget /\ [][BatchCallsInTurn]_vars

(***************************************************************************)
(* Emptiness of runs under redistribution.                                 *)
(***************************************************************************)
\* Both the original and the corrected text are non-empty and a routine
\* has been applied.
GeneralCase ==
    /\ distRoutine # "none"
    /\ Len(distOriginal) > 0
    /\ Len(distCorrected) > 0

EmptyStaysEmpty ==
    \A k \in 1..Len(distElements) :
        distElements[k] = <<>> => distResult[k] = <<>>

NonEmptyStaysNonEmpty ==
    \A k \in 1..Len(distElements) :
        distElements[k] # <<>> => distResult[k] # <<>>

\* C28: in the general case (original and corrected text both non-empty),
\* in both redistribution routines, a run whose text was empty before is
\* empty after, and when the corrected text is at least as long as the
\* original every run that was non-empty before is non-empty after.
C28_EmptinessPreserved ==
    GeneralCase =>
        /\ EmptyStaysEmpty
        /\ Len(distCorrected) >= Len(distOriginal) => NonEmptyStaysNonEmpty

(***************************************************************************)
(* The body part under an exception, under Spec.                           *)
(***************************************************************************)
CorrectDocumentStages ==
    <<"Extract", "Repair", "Body", "HeadersFooters", "OtherParts", "Repair",
      "Assemble">>

\* The next step of the body stage raises: the parse of word/document.xml
\* or the split of a returned None.
BodyException ==
    /\ pipeline = "CorrectDocument"
    /\ \/ /\ pc = "body"
          /\ DocXmlPath \in Files(disk)
          /\ disk[DocXmlPath].xml = "unparseable"
       \/ /\ pc = "batchWait"
          /\ cgPc = "returned"
          /\ cgResult = NoneContent

\* During the body stage the extracted files are as the first repair pass
\* left them.
DiskKeptDuringBody ==
    (pipeline = "CorrectDocument" /\ pc \in BodyStage)
        => disk = RepairedDisk(package)

\* A step of the body stage that raises writes nothing and leads to the
\* headers and footers.
ExceptionGoesOn ==
    BodyException => (disk' = disk /\ pc' = "headers")

\* The only step of the body stage that writes is the one taken when all
\* batches and tables are through, and it writes word/document.xml alone.
BodyWrittenWhole ==
    (pipeline = "CorrectDocument" /\ pc \in BodyStage /\ disk' # disk)
        => /\ pc = "tables"
           /\ tableIdx > NumTables(tree)
           /\ \A f \in Files(disk) \ {DocXmlPath} : disk'[f] = disk[f]

\* A run past its body stage goes through the remaining stages in order.
RemainingStagesRun ==
    (pipeline = "CorrectDocument" /\ archiveValid /\ pc \notin BodyStage)
        => /\ Len(stages) <= Len(CorrectDocumentStages)
           /\ stages = SubSeq(CorrectDocumentStages, 1, Len(stages))
           /\ pc = "headers" => Len(stages) = 3
           /\ pc = "done" => /\ stages = CorrectDocumentStages
                             /\ result = "returned output"

\* C29: when an exception occurs while the document body is processed,
\* word/document.xml on disk keeps the content it had before the body
\* stage, no partially corrected body being written, and the run goes on
\* with the headers and footers, the notes, the second repair pass and the
\* assembly.
C29_BodyAllOrNothing ==
    /\ []DiskKeptDuringBody
    /\ [][ExceptionGoesOn /\ BodyWrittenWhole]_vars
    /\ []RemainingStagesRun

\* Reached: a run has returned its output; the last batch request of its
\* body stage, made after an earlier one had been answered and applied,
\* was answered with None; word/document.xml holds the paragraphs of the
\* upload, and the header was corrected and written afterwards.
C29_Witness ==
    /\ pipeline = "CorrectDocument"
    /\ pc = "done"
    /\ result = "returned output"
    /\ {DocXmlPath, HeaderPath} \subseteq Files(disk)
    /\ disk[DocXmlPath].paragraphs = package[DocXmlPath].paragraphs
    /\ \E i, j, h \in 1..Len(calls) :
          /\ i < j /\ j < h
          /\ calls[i].part = DocXmlPath
          /\ calls[i].caller = "batch"
          /\ calls[i].segments = Len(calls[i].paragraphs)
          /\ calls[j].part = DocXmlPath
          /\ calls[j].caller = "batch"
          /\ calls[j].segments = 0
          /\ calls[h].part = HeaderPath
    /\ disk[HeaderPath].rewritten

(***************************************************************************)
(* The page state machine, under SpecSession.                              *)
(***************************************************************************)
\* current_state is one of the three pages; the results page has results
\* and the processing page an uploaded file.
PageInvariant ==
    /\ current_state \in {"upload", "processing", "results"}
    /\ current_state = "results" => processing_results # NoResults
    /\ current_state = "processing" => uploaded_file \in FileNames

\* A step that changes the page is one of the four transitions: the button
\* pressed with a file uploaded, which stores the file; processing that
\* succeeded, which stores its results; processing that raised, which
\* stores none; a new document requested, which clears the results.
PageTransition ==
    current_state' # current_state =>
        \/ /\ current_state = "upload"
           /\ current_state' = "processing"
           /\ uploaded_file' \in FileNames
           /\ filename' = uploaded_file'
        \/ /\ current_state = "processing"
           /\ current_state' = "results"
           /\ processing_results' = IsoResults(uploaded_file)
        \/ /\ current_state = "processing"
           /\ current_state' = "upload"
           /\ processing_results' = processing_results
        \/ /\ current_state = "results"
           /\ current_state' = "upload"
           /\ processing_results' = NoResults

\* C30: current_state is always one of upload, processing and results;
\* its only transitions are upload to processing (button pressed with a
\* file uploaded), processing to results (processing succeeded),
\* processing to upload (processing raised) and results to upload (new
\* document requested); on the results page processing_results is set and
\* on the processing page an uploaded file is stored in the session.
C30_PageStateMachine == []PageInvariant /\ [][PageTransition]_vars

\* Reached: after a failed and a successful processing of earlier uploads
\* and a request for a new document, a second upload has been processed
\* and its results are shown.
C30_Witness ==
    /\ current_state = "results"
    /\ download_count = 2
    /\ processing_results = IsoResults("c.txt")
    /\ user_instructions = "formal"
====
